---- MODULE Spec2Model ----
(***************************************************************************)
(* Model of epub_chainsaw: the chapter extractor (extract_epub.py) and the *)
(* chapter / TOC rebuilder (build_epub.py).                                *)
(*                                                                         *)
(* A Python str is a sequence of one-character strings.  A markup string   *)
(* (an html snippet, a rendered chapter) is a sequence of units: a unit is *)
(* a character [c |-> "x"] or one parsed top-level element [e |-> node];   *)
(* lxml's parser and serializer convert between unit sequences and trees.  *)
(***************************************************************************)
EXTENDS Integers, Sequences, FiniteSets, TLC

VARIABLES
    pc,                  \* position of the running operation
    \* ---- render_text_with_extras (build_epub.py)
    r_text,              \* argument text
    r_meta,              \* argument placeholders_meta
    r_blocks,            \* local list blocks, as it is when the function returns
    r_out,               \* the returned string
    \* ---- normalize_placeholder_html (build_epub.py)
    n_in,                \* argument html_snippet
    n_out,               \* normalize_placeholder_html(n_in)
    n_twice,             \* normalize_placeholder_html(n_out)
    \* ---- build_toc (build_epub.py)
    toc_entries,         \* argument entries: the serialized TOC
    chapters,            \* argument chapters: file name -> chapter object
    toc_result,          \* what build_toc returned, or that it raised
    \* ---- extract_text_and_extras (extract_epub.py)
    raw_content,         \* argument raw_content, as lxml parses it
    heap,                \* the elements of the tree, by identity
    body,                \* local body
    nodes,               \* local nodes = list(body.iter())
    idx,                 \* position of the for loop in nodes
    placeholder_counter, \* local placeholder_counter
    extras,              \* local extras
    taken,               \* history: the elements recorded in extras, in order
    text_content,        \* the returned text
    \* ---- build_spine (build_epub.py)
    spine_entries,       \* argument spine_entries
    spine_chapters,      \* argument chapters, in the order of the dict
    spine,               \* the returned list, or that build_spine raised
    \* ---- apply_translation (build_translated_epub.py)
    original_text,       \* argument original_text
    translated_lines,    \* argument translated_lines
    text_to_use,         \* what apply_translation returned
    warned,              \* a warning was logged
    html_content,        \* the chapter rendered from text_to_use
    \* ---- extract_items (extract_epub.py)
    book_items,          \* book.get_items(): [file_name, type] per item
    item_idx,            \* idx of the for loop of extract_items
    records,             \* local records
    files,               \* the paths written below or beside out_dir, in order
    \* ---- reading a chapter's text: create_item, build_translated_chapters
    txt_bytes,           \* the bytes of a chapter's stored text file
    translation_lines,   \* result of load_translation, None without a translation
    chapter_text,        \* the text the chapter is rendered from
    chapter_content,     \* chapter.content
    decode_warned        \* the decode warning was logged

renderVars == <<r_text, r_meta, r_blocks, r_out>>
normVars == <<n_in, n_out, n_twice>>
tocVars == <<toc_entries, chapters, toc_result>>
extractVars ==
    <<raw_content, heap, body, nodes, idx, placeholder_counter, extras, taken,
      text_content>>
spineVars == <<spine_entries, spine_chapters, spine>>
translateVars ==
    <<original_text, translated_lines, text_to_use, warned, html_content>>
itemsVars == <<book_items, item_idx, records, files>>
readVars == <<txt_bytes, translation_lines, chapter_text, chapter_content, decode_warned>>
restVars == <<readVars, itemsVars, translateVars, spineVars>>
vars == <<pc, renderVars, normVars, tocVars, extractVars, restVars>>

\* The variables of an operation that is not running
SpineIdle == spine_entries = <<>> /\ spine_chapters = <<>> /\ spine = <<>>
TranslateIdle ==
    /\ original_text = <<>> /\ translated_lines = <<>> /\ text_to_use = <<>>
    /\ warned = FALSE /\ html_content = <<>>
ItemsIdle ==
    book_items = <<>> /\ item_idx = 0 /\ records = <<>> /\ files = <<>>
\* Python's None
None == [none |-> TRUE]

ReadIdle ==
    /\ txt_bytes = <<>> /\ translation_lines = None /\ chapter_text = <<>>
    /\ chapter_content = <<>> /\ decode_warned = FALSE
RestIdle == ReadIdle /\ ItemsIdle /\ TranslateIdle /\ SpineIdle
EarlierIdle ==
    /\ r_text = <<>> /\ r_meta = <<>> /\ r_blocks = <<>> /\ r_out = <<>>
    /\ n_in = <<>> /\ n_out = <<>> /\ n_twice = <<>>
    /\ toc_entries = <<>> /\ chapters = <<>> /\ toc_result = <<>>
    /\ raw_content = <<>> /\ heap = <<>> /\ body = 0 /\ nodes = <<>> /\ idx = 0
    /\ placeholder_counter = 0 /\ extras = <<>> /\ taken = <<>>
    /\ text_content = <<>>

(***************************************************************************)
(* Bounds of the model.                                                    *)
(***************************************************************************)
MaxPieces == 4           \* pieces a rendered plain text is assembled from
MaxSvgKids == 2          \* children of the svg element of a normalized snippet
MaxTocChildren == 2      \* children of one node of a serialized TOC
MaxNodes == 3            \* elements below the body of an extracted chapter
MaxSpine == 3            \* entries of a stored spine
MaxOriginal == 4         \* pieces of the original text of a translated chapter
MaxTranslated == 3       \* lines of a translation
MaxItems == 2            \* items of an extracted book
MaxNameTokens == 3       \* pieces the file name of an item is assembled from
MaxBytes == 4            \* bytes of a stored text file

(***************************************************************************)
(* Python str primitives.                                                  *)
(***************************************************************************)
WS == {" ", "\n", "\r", "\t"}
NL == {"\n"}
LineEnds == {"\n", "\r"}

RECURSIVE SkipFwd(_, _, _)
SkipFwd(s, cs, i) ==
    IF i <= Len(s) /\ s[i] \in cs THEN SkipFwd(s, cs, i + 1) ELSE i

RECURSIVE SkipBack(_, _, _)
SkipBack(s, cs, i) ==
    IF i >= 1 /\ s[i] \in cs THEN SkipBack(s, cs, i - 1) ELSE i

\* s.lstrip(cs), s.rstrip(cs), s.strip(cs)
LStripChars(s, cs) == SubSeq(s, SkipFwd(s, cs, 1), Len(s))
RStripChars(s, cs) == SubSeq(s, 1, SkipBack(s, cs, Len(s)))
StripChars(s, cs) == SubSeq(s, SkipFwd(s, cs, 1), SkipBack(s, cs, Len(s)))

\* bool(s.strip())
IsBlank(s) == \A i \in 1..Len(s) : s[i] \in WS

\* s.replace("\r\n", "\n")
RECURSIVE ReplaceCRLFFrom(_, _)
ReplaceCRLFFrom(s, i) ==
    IF i > Len(s) THEN <<>>
    ELSE IF s[i] = "\r" /\ i < Len(s) /\ s[i + 1] = "\n"
         THEN <<"\n">> \o ReplaceCRLFFrom(s, i + 2)
         ELSE <<s[i]>> \o ReplaceCRLFFrom(s, i + 1)
ReplaceCRLF(s) == ReplaceCRLFFrom(s, 1)

\* s.split("\n"): always at least one part
RECURSIVE SplitOnFrom(_, _, _, _)
SplitOnFrom(s, sep, i, start) ==
    IF i > Len(s) THEN <<SubSeq(s, start, Len(s))>>
    ELSE IF s[i] = sep
         THEN <<SubSeq(s, start, i - 1)>> \o SplitOnFrom(s, sep, i + 1, i + 1)
         ELSE SplitOnFrom(s, sep, i + 1, start)
SplitOn(s, sep) == SplitOnFrom(s, sep, 1, 1)

\* s.splitlines(): "\n", "\r" and "\r\n" end a line; no empty last line
RECURSIVE SplitLinesFrom(_, _, _)
SplitLinesFrom(s, i, start) ==
    IF i > Len(s)
    THEN IF start <= Len(s) THEN <<SubSeq(s, start, Len(s))>> ELSE <<>>
    ELSE IF s[i] = "\r" /\ i < Len(s) /\ s[i + 1] = "\n"
         THEN <<SubSeq(s, start, i - 1)>> \o SplitLinesFrom(s, i + 2, i + 2)
         ELSE IF s[i] \in LineEnds
              THEN <<SubSeq(s, start, i - 1)>> \o SplitLinesFrom(s, i + 1, i + 1)
              ELSE SplitLinesFrom(s, i + 1, start)
SplitLines(s) == SplitLinesFrom(s, 1, 1)

\* sep.join(parts)
RECURSIVE Join(_, _)
Join(parts, sep) ==
    IF parts = <<>> THEN <<>>
    ELSE IF Len(parts) = 1 THEN parts[1]
         ELSE parts[1] \o sep \o Join(Tail(parts), sep)

\* "".join(lists): concatenation of a sequence of sequences
RECURSIVE Concat(_)
Concat(ss) == IF ss = <<>> THEN <<>> ELSE Head(ss) \o Concat(Tail(ss))

\* re.sub(r"\n{3,}", "\n\n", s)
RECURSIVE CollapseNewlinesFrom(_, _)
CollapseNewlinesFrom(s, i) ==
    IF i > Len(s) THEN <<>>
    ELSE IF s[i] = "\n"
         THEN LET j == SkipFwd(s, NL, i)
              IN  (IF j - i >= 3 THEN <<"\n", "\n">> ELSE SubSeq(s, i, j - 1))
                  \o CollapseNewlinesFrom(s, j)
         ELSE <<s[i]>> \o CollapseNewlinesFrom(s, i + 1)
CollapseNewlines(s) == CollapseNewlinesFrom(s, 1)

(***************************************************************************)
(* The placeholder token.                                                  *)
(***************************************************************************)
PlaceholderPrefix ==
    <<"[", "[", "E", "P", "U", "B", "_", "H", "T", "M", "L", "_",
      "B", "L", "O", "C", "K", "_">>
PlaceholderSuffix == <<"]", "]">>
Digits == <<"0", "1", "2", "3", "4", "5", "6", "7", "8", "9">>
IsDigit(c) == c \in {Digits[i] : i \in 1..10}

RECURSIVE Decimal(_)
Decimal(k) ==
    IF k < 10 THEN <<Digits[k + 1]>>
    ELSE Decimal(k \div 10) \o <<Digits[(k % 10) + 1]>>

\* format(k, "0{w}d"): zero-padded to at least w digits
ZeroPad(k, w) ==
    LET d == Decimal(k)
    IN  IF Len(d) >= w THEN d ELSE [i \in 1..(w - Len(d)) |-> "0"] \o d

\* Mutant: the number is not padded
PlaceholderTemplateUnpadded(k) ==
    PlaceholderPrefix \o Decimal(k) \o PlaceholderSuffix

\* PLACEHOLDER_TEMPLATE.format(k)
PLACEHOLDER_TEMPLATE(k) == PlaceholderPrefix \o ZeroPad(k, 4) \o PlaceholderSuffix

\* PLACEHOLDER_PATTERN matches s at position i
PLACEHOLDER_PATTERN(s, i) ==
    /\ i + 23 <= Len(s)
    /\ s[i] = "["
    /\ SubSeq(s, i, i + 17) = PlaceholderPrefix
    /\ \A j \in 18..21 : IsDigit(s[i + j])
    /\ SubSeq(s, i + 22, i + 23) = PlaceholderSuffix

\* [m.start() for m in PLACEHOLDER_PATTERN.finditer(s)]: leftmost,
\* non-overlapping matches
RECURSIVE FindIterFrom(_, _)
FindIterFrom(s, i) ==
    IF i > Len(s) THEN <<>>
    ELSE IF PLACEHOLDER_PATTERN(s, i)
         THEN <<i>> \o FindIterFrom(s, i + 24)
         ELSE FindIterFrom(s, i + 1)
FindIter(s) == FindIterFrom(s, 1)

(***************************************************************************)
(* Markup trees (lxml elements) and markup strings.                        *)
(*                                                                         *)
(* An element is [tag, at, text, tail, kids, sc]: at maps attribute names  *)
(* to values, a missing attribute reads as the empty string; sc says that  *)
(* the source text spelled the element XML-style (<img .../>), which       *)
(* lxml's HTML serializer never does.                                      *)
(***************************************************************************)
NoAttrs == [x \in {} |-> <<>>]
Elem(tag, at, text, kids, tail) ==
    [tag |-> tag, at |-> at, text |-> text, tail |-> tail, kids |-> kids,
     sc |-> FALSE]

\* elem.get(name), used by the code only for its truth value and its text
AttrGet(n, name) == IF name \in DOMAIN n.at THEN n.at[name] ELSE <<>>

\* elem.set(name, value)
AttrSet(n, name, value) ==
    [n EXCEPT !.at = [k \in (DOMAIN n.at) \cup {name} |->
                         IF k = name THEN value ELSE n.at[k]]]

CharUnits(s) == [i \in 1..Len(s) |-> [c |-> s[i]]]
IsCharUnit(u) == "c" \in DOMAIN u
UnitChars(us) == [i \in 1..Len(us) |-> us[i].c]

\* list(elem.iter()): the paths of elem's subtree in document order
RECURSIVE IterPaths(_, _)
IterPaths(n, p) ==
    <<p>> \o Concat([i \in 1..Len(n.kids) |-> IterPaths(n.kids[i], Append(p, i))])

RECURSIVE NodeAt(_, _)
NodeAt(n, p) == IF p = <<>> THEN n ELSE NodeAt(n.kids[Head(p)], Tail(p))

\* [the elements of elem.iter()]
IterNodes(n) == LET ps == IterPaths(n, <<>>)
                IN  [i \in 1..Len(ps) |-> NodeAt(n, ps[i])]

\* parent.replace(old, new) for the element at path p: the old element
\* leaves with its tail, the new one comes with its own
RECURSIVE ReplaceAt(_, _, _)
ReplaceAt(n, p, new) ==
    IF p = <<>> THEN new
    ELSE [n EXCEPT !.kids[Head(p)] = ReplaceAt(@, Tail(p), new)]

IsPrefix(p, q) == Len(p) <= Len(q) /\ SubSeq(q, 1, Len(p)) = p

\* libxml2's HTML parser lower-cases attribute names
LowerName(name) ==
    CASE name = "viewBox" -> "viewbox"
      [] name = "preserveAspectRatio" -> "preserveaspectratio"
      [] OTHER -> name

RECURSIVE Parsed(_)
Parsed(n) ==
    [tag |-> n.tag,
     at |-> [k \in {LowerName(a) : a \in DOMAIN n.at} |->
                n.at[CHOOSE a \in DOMAIN n.at : LowerName(a) = k]],
     text |-> n.text, tail |-> n.tail,
     kids |-> [i \in 1..Len(n.kids) |-> Parsed(n.kids[i])],
     sc |-> FALSE]

\* lhtml.fragment_fromstring(s, create_parent=True): a div holding the
\* fragments; leading text is kept only when it is not blank, the text
\* after a top-level element is that element's tail
RECURSIVE FragmentKids(_, _)
FragmentKids(us, i) ==
    IF i > Len(us) THEN <<>>
    ELSE LET j == CHOOSE k \in (i + 1)..(Len(us) + 1) :
                      /\ \A m \in (i + 1)..(k - 1) : IsCharUnit(us[m])
                      /\ (k <= Len(us) => ~IsCharUnit(us[k]))
         IN  <<[Parsed(us[i].e) EXCEPT !.tail = UnitChars(SubSeq(us, i + 1, j - 1))]>>
             \o FragmentKids(us, j)

FragmentFromString(us) ==
    LET first == CHOOSE k \in 1..(Len(us) + 1) :
                     /\ \A m \in 1..(k - 1) : IsCharUnit(us[m])
                     /\ (k <= Len(us) => ~IsCharUnit(us[k]))
        lead == UnitChars(SubSeq(us, 1, first - 1))
    IN  Elem("div", NoAttrs, IF IsBlank(lead) THEN <<>> ELSE lead,
             FragmentKids(us, first), <<>>)

\* lhtml.tostring(elem, encoding="unicode", method="html"): the element
\* followed by its tail (with_tail defaults to True)
tostring(n) == <<[e |-> [n EXCEPT !.tail = <<>>]]>> \o CharUnits(n.tail)

(***************************************************************************)
(* build_epub.py: the markup normalizer.                                   *)
(***************************************************************************)
\* The index at which a loop with break stops: the first hit, 0 when none
FirstIndex(hits) ==
    IF hits = {} THEN 0 ELSE CHOOSE i \in hits : \A j \in hits : i <= j

\* x or y, on strings
Or(x, y) == IF x # <<>> THEN x ELSE y

SvgImageRef(image_elem) ==
    Or(AttrGet(image_elem, "{http://www.w3.org/1999/xlink}href"),
       Or(AttrGet(image_elem, "href"), AttrGet(image_elem, "xlink:href")))

SvgDescText(svg_elem) ==
    LET found == IterNodes(svg_elem)
        hit == FirstIndex({i \in 1..Len(found) :
                              found[i].tag = "desc" /\ ~IsBlank(found[i].text)})
    IN  IF hit # 0 THEN StripChars(found[hit].text, WS) ELSE <<>>

WithSize(img, image_elem, attr) ==
    IF AttrGet(image_elem, attr) # <<>>
    THEN AttrSet(img, attr, AttrGet(image_elem, attr))
    ELSE img

_svg_image_to_img(svg_elem) ==
    LET found == IterNodes(svg_elem)
        first == FirstIndex({i \in 1..Len(found) : found[i].tag = "image"})
    IN  IF first = 0 THEN None
        ELSE LET image_elem == found[first]
                 href == SvgImageRef(image_elem)
                 new_img == WithSize(WithSize(
                                AttrSet(Elem("img", NoAttrs, <<>>, <<>>, <<>>), "src", href),
                                image_elem, "width"), image_elem, "height")
                 desc_text == SvgDescText(svg_elem)
             IN  IF href = <<>> THEN None
                 ELSE IF desc_text # <<>> THEN AttrSet(new_img, "alt", desc_text)
                      ELSE new_img

\* The loop of normalize_placeholder_html over list(parent.iter()).  An
\* element is looked at as it was collected: only elements later in
\* document order are replaced before it, and those lie outside its
\* subtree or inside it only after it was looked at.  A replacement below
\* an svg that has itself been replaced happens in the detached subtree and
\* does not show in parent.
\* Mutant: the loop stops at the first svg it replaces
RECURSIVE NormalizeLoopFirstOnly(_, _, _, _, _)
NormalizeLoopFirstOnly(orig, parent, paths, replaced, changed) ==
    IF paths = <<>> THEN [parent |-> parent, changed |-> changed]
    ELSE LET elem == NodeAt(orig, Head(paths))
             replacement == IF elem.tag = "svg" THEN _svg_image_to_img(elem) ELSE None
         IN  IF replacement = None
             THEN NormalizeLoopFirstOnly(orig, parent, Tail(paths), replaced, changed)
             ELSE [parent |-> ReplaceAt(parent, Head(paths), replacement),
                   changed |-> TRUE]

RECURSIVE NormalizeLoop(_, _, _, _, _)
NormalizeLoop(orig, parent, paths, replaced, changed) ==
    IF paths = <<>> THEN [parent |-> parent, changed |-> changed]
    ELSE LET p == Head(paths)
             elem == NodeAt(orig, p)
             replacement == IF elem.tag = "svg" THEN _svg_image_to_img(elem) ELSE None
             attached == \A q \in replaced : ~IsPrefix(q, p)
         IN  IF replacement = None
             THEN NormalizeLoop(orig, parent, Tail(paths), replaced, changed)
             ELSE NormalizeLoop(orig,
                                IF attached THEN ReplaceAt(parent, p, replacement)
                                ELSE parent,
                                Tail(paths), replaced \cup {p}, TRUE)

normalize_placeholder_html(html_snippet) ==
    LET parent == FragmentFromString(html_snippet)
        done == NormalizeLoop(parent, parent, IterPaths(parent, <<>>), {}, FALSE)
    IN  IF ~done.changed THEN html_snippet
        ELSE Concat([i \in 1..Len(done.parent.kids) |-> tostring(done.parent.kids[i])])

(***************************************************************************)
(* build_epub.py: the rebuild direction of the placeholder codec.          *)
(***************************************************************************)
\* The separators of re.split(r"\n\s*\n", s) from position i on: the
\* leftmost "\n" from which white space leads to another "\n", taken up to
\* the last such "\n" (\s* is greedy).  <<start, end>> or <<>>.
RECURSIVE BlankSeparatorFrom(_, _)
BlankSeparatorFrom(s, i) ==
    IF i > Len(s) THEN <<>>
    ELSE IF s[i] # "\n" THEN BlankSeparatorFrom(s, i + 1)
         ELSE LET run == SkipFwd(s, WS, i + 1) - 1
                  last == SkipBack(s, WS \ NL, run)
              IN  IF last > i THEN <<i, last>>
                  ELSE BlankSeparatorFrom(s, i + 1)

RECURSIVE SplitBlankFrom(_, _)
SplitBlankFrom(s, start) ==
    LET sep == BlankSeparatorFrom(s, start)
    IN  IF sep = <<>> THEN <<SubSeq(s, start, Len(s))>>
        ELSE <<SubSeq(s, start, sep[1] - 1)>> \o SplitBlankFrom(s, sep[2] + 1)

\* Mutant: every line break starts a new paragraph
SplitParagraphsAtEveryLine(chunk) ==
    SelectSeq(SplitOn(ReplaceCRLF(chunk), "\n"), LAMBDA t : ~IsBlank(t))

_split_paragraphs(chunk) ==
    LET normalized == ReplaceCRLF(chunk)
        parts == SplitBlankFrom(normalized, 1)
        trimmed == [i \in 1..Len(parts) |-> StripChars(parts[i], NL)]
    IN  IF IsBlank(normalized) THEN <<>>
        ELSE SelectSeq(trimmed, LAMBDA t : ~IsBlank(t))

\* s.replace(ch, by)
ReplaceChar(s, ch, by) ==
    Concat([i \in 1..Len(s) |-> IF s[i] = ch THEN by ELSE <<s[i]>>])

\* html.escape(s), quote=True: "&" first, then "<", ">", the two quotes
HtmlEscape(s) ==
    ReplaceChar(ReplaceChar(ReplaceChar(ReplaceChar(ReplaceChar(s,
        "&", <<"&", "a", "m", "p", ";">>),
        "<", <<"&", "l", "t", ";">>),
        ">", <<"&", "g", "t", ";">>),
        "\"", <<"&", "q", "u", "o", "t", ";">>),
        "'", <<"&", "#", "x", "2", "7", ";">>)

_paragraph_to_html(paragraph) ==
    LET lines == SplitOn(paragraph, "\n")
        escaped == [i \in 1..Len(lines) |-> HtmlEscape(lines[i])]
        inner == Join(escaped, <<"<", "b", "r", "/", ">">>)
    IN  CharUnits(<<"<", "p", ">">> \o inner \o <<"<", "/", "p", ">">>)

_chunk_to_html_blocks(chunk) ==
    LET paragraphs == _split_paragraphs(chunk)
    IN  [i \in 1..Len(paragraphs) |-> _paragraph_to_html(paragraphs[i])]

\* The dict comprehension of render_text_with_extras: entries with a
\* non-empty placeholder and a non-empty html, the last one winning.
PlaceholderMap(placeholders_meta) ==
    LET usable == {i \in 1..Len(placeholders_meta) :
                      /\ placeholders_meta[i].placeholder # <<>>
                      /\ placeholders_meta[i].html # <<>>}
        keys == {placeholders_meta[i].placeholder : i \in usable}
    IN  [k \in keys |->
            placeholders_meta[CHOOSE i \in usable :
                /\ placeholders_meta[i].placeholder = k
                /\ \A j \in usable :
                       placeholders_meta[j].placeholder = k => j <= i].html]

\* One round of the loop over PLACEHOLDER_PATTERN.finditer(text)
RenderMatch(text, placeholder_map, blocks, cursor, start) ==
    LET chunk == SubSeq(text, cursor, start - 1)
        placeholder == SubSeq(text, start, start + 23)
        withChunk == blocks \o _chunk_to_html_blocks(chunk)
    IN  IF placeholder \in DOMAIN placeholder_map
        THEN Append(withChunk, normalize_placeholder_html(placeholder_map[placeholder]))
        ELSE withChunk

RECURSIVE RenderLoop(_, _, _, _, _)
RenderLoop(text, placeholder_map, matches, blocks, cursor) ==
    IF matches = <<>>
    THEN blocks \o _chunk_to_html_blocks(SubSeq(text, cursor, Len(text)))
    ELSE RenderLoop(text, placeholder_map, Tail(matches),
                    RenderMatch(text, placeholder_map, blocks, cursor, Head(matches)),
                    Head(matches) + 24)

\* The list blocks when render_text_with_extras returns
RenderBlocks(text0, placeholders_meta) ==
    LET text == ReplaceCRLF(text0)
    IN  RenderLoop(text, PlaceholderMap(placeholders_meta), FindIter(text), <<>>, 1)

EmptyParagraph == CharUnits(<<"<", "p", ">", "<", "/", "p", ">">>)

\* Mutant: the join without the fallback paragraph
JoinBlocksNoFallback(blocks) == Concat(blocks)

\* "".join(blocks) or "<p></p>"
JoinBlocks(blocks) ==
    LET joined == Concat(blocks)
    IN  IF joined # <<>> THEN joined ELSE EmptyParagraph

render_text_with_extras(text, placeholders_meta) ==
    JoinBlocks(RenderBlocks(text, placeholders_meta))

(***************************************************************************)
(* Inputs of the rebuild direction: plain texts assembled from pieces and  *)
(* the scenario text of the specification; sidecar record lists.           *)
(***************************************************************************)
Token1 == PLACEHOLDER_TEMPLATE(1)
Token2 == PLACEHOLDER_TEMPLATE(2)

TextPieces == {<<"a">>, <<" ">>, <<"\n">>, <<"\r">>, <<"<">>, Token1, Token2}

ScenarioText ==
    <<"T", "i", "t", "l", "e", "\n", "\n">>
    \o <<"P", "a", "r", "a", " ", "o", "n", "e", ".", "\n", "\n">>
    \o Token1 \o <<"\n", "\n">>
    \o <<"P", "a", "r", "a", " ", "t", "w", "o", ".">>

RenderTexts ==
    {ScenarioText} \cup
    UNION {{Concat(ps) : ps \in [1..n -> TextPieces]} : n \in 0..MaxPieces}

Href(v) == "href" :> v
ImgA == Elem("img", "src" :> <<"a", ".", "p", "n", "g">>, <<>>, <<>>, <<>>)
ImageA == Elem("image", Href(<<"b", ".", "p", "n", "g">>), <<>>, <<>>, <<>>)
SvgA == Elem("svg", "viewBox" :> <<"0">>, <<>>, <<ImageA>>, <<>>)

\* <img src="a.png"/> as the specification's scenario spells it
ImgXmlSnippet == <<[e |-> [ImgA EXCEPT !.sc = TRUE]]>>
ImgSnippet == <<[e |-> ImgA]>>
SvgSnippet == <<[e |-> SvgA]>>

Record(placeholder, html) == [placeholder |-> placeholder, html |-> html]

ScenarioMeta == <<Record(Token1, ImgXmlSnippet)>>
RenderMetas ==
    { <<>>,
      ScenarioMeta,
      <<Record(Token1, <<>>)>>,
      <<Record(Token1, SvgSnippet), Record(Token2, ImgSnippet)>>,
      <<Record(Token1, ImgXmlSnippet), Record(Token1, SvgSnippet)>> }

InitRender ==
    /\ pc = "render"
    /\ RestIdle
    /\ r_text \in RenderTexts
    /\ r_meta \in RenderMetas
    /\ r_blocks = <<>>
    /\ r_out = <<>>
    /\ n_in = <<>> /\ n_out = <<>> /\ n_twice = <<>>
    /\ toc_entries = <<>> /\ chapters = <<>> /\ toc_result = <<>>
    /\ raw_content = <<>> /\ heap = <<>> /\ body = 0 /\ nodes = <<>> /\ idx = 0
    /\ placeholder_counter = 0 /\ extras = <<>> /\ taken = <<>>
    /\ text_content = <<>>

\* One call render_text_with_extras(r_text, r_meta)
Render ==
    /\ pc = "render"
    /\ r_blocks' = RenderBlocks(r_text, r_meta)
    /\ r_out' = render_text_with_extras(r_text, r_meta)
    /\ pc' = "rendered"
    /\ UNCHANGED <<restVars, r_text, r_meta, normVars, tocVars, extractVars>>

NextRender == Render
SpecRender == InitRender /\ [][NextRender]_vars

(***************************************************************************)
(* What the rebuild direction is measured against, stated on the lines of  *)
(* the text and on the set of token positions rather than by the regular   *)
(* expressions of the code.                                                *)
(***************************************************************************)
\* The elements of a finite set of integers in increasing order
RECURSIVE Sorted(_)
Sorted(S) ==
    IF S = {} THEN <<>>
    ELSE LET m == CHOOSE x \in S : \A y \in S : x <= y
         IN  <<m>> \o Sorted(S \ {m})

TokenStarts(text) == {i \in 1..Len(text) : PLACEHOLDER_PATTERN(text, i)}
TokenAt(text, i) == SubSeq(text, i, i + 23)

\* The token has a record that carries markup
Resolves(token, meta) ==
    \E i \in 1..Len(meta) : meta[i].placeholder = token /\ meta[i].html # <<>>

\* The markup recorded for the token: that of its last such record
RecordedHtml(token, meta) ==
    LET hits == {i \in 1..Len(meta) :
                    meta[i].placeholder = token /\ meta[i].html # <<>>}
    IN  meta[CHOOSE i \in hits : \A j \in hits : j <= i].html

EscapedChar(ch) ==
    CASE ch = "&" -> <<"&", "a", "m", "p", ";">>
      [] ch = "<" -> <<"&", "l", "t", ";">>
      [] ch = ">" -> <<"&", "g", "t", ";">>
      [] ch = "\"" -> <<"&", "q", "u", "o", "t", ";">>
      [] ch = "'" -> <<"&", "#", "x", "2", "7", ";">>
      [] OTHER -> <<ch>>

\* <p>line<br/>line</p> with every character of every line escaped
ParagraphElement(lines) ==
    CharUnits(<<"<", "p", ">">>
              \o Join([i \in 1..Len(lines) |->
                          Concat([j \in 1..Len(lines[i]) |-> EscapedChar(lines[i][j])])],
                      <<"<", "b", "r", "/", ">">>)
              \o <<"<", "/", "p", ">">>)

\* The paragraphs of a chunk: its lines, cut at every blank line that has a
\* line before and a line after it; empty lines at either end of a
\* paragraph do not belong to it, and a paragraph of blank lines is none.
\* A line ends at "\n" or at "\r\n".
ChunkParagraphs(chunk) ==
    LET lines == SplitOn(ReplaceCRLF(chunk), "\n")
        n == Len(lines)
        cut == {i \in 2..(n - 1) : IsBlank(lines[i])}
        starts == {a \in 1..n : a \notin cut /\ (a = 1 \/ (a - 1) \in cut)}
        EndOf(a) == CHOOSE b \in a..n :
                        /\ \A i \in a..b : i \notin cut
                        /\ (b = n \/ (b + 1) \in cut)
        Trimmed(a, b) ==
            LET full == {i \in a..b : lines[i] # <<>>}
            IN  IF full = {} THEN <<>>
                ELSE SubSeq(lines, CHOOSE i \in full : \A j \in full : i <= j,
                                   CHOOSE i \in full : \A j \in full : j <= i)
        runs == Sorted(starts)
        paras == [k \in 1..Len(runs) |-> Trimmed(runs[k], EndOf(runs[k]))]
    IN  SelectSeq(paras, LAMBDA ls : \E i \in 1..Len(ls) : ~IsBlank(ls[i]))

ChunkElements(chunk) ==
    LET paras == ChunkParagraphs(chunk)
    IN  [i \in 1..Len(paras) |-> ParagraphElement(paras[i])]

\* The blocks the text stands for: per token, in the order of the text, the
\* paragraphs before it and then its normalized markup if it has a record;
\* at the end the paragraphs after the last token.
ExpectedBlocks(text, meta) ==
    LET starts == Sorted(TokenStarts(text))
        k == Len(starts)
        From(j) == IF j = 1 THEN 1 ELSE starts[j - 1] + 24
        Verbatim(j) ==
            IF Resolves(TokenAt(text, starts[j]), meta)
            THEN <<normalize_placeholder_html(
                       RecordedHtml(TokenAt(text, starts[j]), meta))>>
            ELSE <<>>
    IN  Concat([j \in 1..k |->
                   ChunkElements(SubSeq(text, From(j), starts[j] - 1)) \o Verbatim(j)])
        \o ChunkElements(SubSeq(text, From(k + 1), Len(text)))

\* The text holds nothing but white space and tokens without markup
NothingToRender(text, meta) ==
    \A i \in 1..Len(text) :
        \/ text[i] \in WS
        \/ \E j \in TokenStarts(text) :
               /\ j <= i /\ i <= j + 23
               /\ ~Resolves(TokenAt(text, j), meta)

\* s occurs in t
Occurs(s, t) == \E i \in 1..(Len(t) - Len(s) + 1) : SubSeq(t, i, i + Len(s) - 1) = s

(***************************************************************************)
(* C2.  A token of the text without a matching record (none, or one with   *)
(* an empty html) stays in the output as an escaped paragraph holding the  *)
(* token's text.                                                           *)
(***************************************************************************)
C2_MissingTokenKeptLiterally ==
    pc = "rendered" =>
        LET text == ReplaceCRLF(r_text)
        IN  \A i \in TokenStarts(text) :
                ~Resolves(TokenAt(text, i), r_meta) =>
                    /\ \E b \in 1..Len(r_blocks) :
                           r_blocks[b] = ParagraphElement(<<TokenAt(text, i)>>)
                    /\ Occurs(CharUnits(TokenAt(text, i)), r_out)

(***************************************************************************)
(* C8.  The blocks of the rebuilt chapter are, in the order of the text,   *)
(* one <p> per blank-line-separated paragraph of every chunk between       *)
(* tokens (line breaks as <br/>, text escaped) and one normalized verbatim *)
(* block per token with a record, and nothing else; the scenario text      *)
(* rebuilds to p Title, p Para one., the image, p Para two.                *)
(***************************************************************************)
ScenarioBlocks ==
    << CharUnits(<<"<", "p", ">", "T", "i", "t", "l", "e", "<", "/", "p", ">">>),
       CharUnits(<<"<", "p", ">", "P", "a", "r", "a", " ", "o", "n", "e", ".",
                   "<", "/", "p", ">">>),
       ImgXmlSnippet,
       CharUnits(<<"<", "p", ">", "P", "a", "r", "a", " ", "t", "w", "o", ".",
                   "<", "/", "p", ">">>) >>

C8_RebuildOutputStructure ==
    pc = "rendered" =>
        LET expected == ExpectedBlocks(ReplaceCRLF(r_text), r_meta)
        IN  /\ r_blocks = expected
            /\ expected # <<>> => r_out = Concat(expected)
            /\ (r_text = ScenarioText /\ r_meta = ScenarioMeta) =>
                   r_blocks = ScenarioBlocks

\* The scenario text has been rebuilt to its four blocks
C8_Witness ==
    /\ pc = "rendered"
    /\ r_text = ScenarioText
    /\ r_meta = ScenarioMeta
    /\ Len(r_blocks) = 4
    /\ r_blocks[3] = ImgXmlSnippet

(***************************************************************************)
(* C9.  The result is never the empty string, and it is exactly <p></p>    *)
(* whenever no block was produced: for an empty or blank text and for a    *)
(* text whose only content is tokens that resolve to nothing.              *)
(***************************************************************************)
C9_EmptyChapterOneEmptyParagraph ==
    pc = "rendered" =>
        /\ r_out # <<>>
        /\ r_blocks = <<>> => r_out = EmptyParagraph
        /\ NothingToRender(ReplaceCRLF(r_text), r_meta) => r_out = EmptyParagraph

C9_Witness ==
    /\ pc = "rendered"
    /\ r_text = <<" ">> \o Token2 \o <<"\n">>
    /\ r_meta = ScenarioMeta
    /\ r_blocks = <<>>
    /\ r_out = EmptyParagraph

(***************************************************************************)
(* Inputs of the normalizer: an svg element with up to MaxSvgKids children *)
(* (images with and without a reference, descriptions, nested svg          *)
(* elements), alone, beside a second svg, inside a div, or after text.     *)
(***************************************************************************)
Sized(at) == at @@ ("width" :> <<"1", "0">>) @@ ("height" :> <<"2", "0">>)
ImageNoRef == Elem("image", "width" :> <<"5">>, <<>>, <<>>, <<>>)
ImageEmptyRef == Elem("image", Href(<<>>), <<>>, <<>>, <<>>)
ImageSized == Elem("image", Sized(Href(<<"c", ".", "p", "n", "g">>)), <<>>, <<>>, <<>>)
ImageXlink == Elem("image", "xlink:href" :> <<"d", ".", "p", "n", "g">>, <<>>, <<>>, <<"\n">>)
DescBlank == Elem("desc", NoAttrs, <<" ">>, <<>>, <<>>)
DescCover == Elem("desc", NoAttrs, <<" ", "C", "o", "v", "e", "r", "\n">>, <<>>, <<>>)
SvgInnerRef == Elem("svg", NoAttrs, <<>>, <<ImageA>>, <<>>)
SvgInnerNoRef == Elem("svg", NoAttrs, <<>>, <<ImageNoRef>>, <<>>)

SvgKids ==
    {ImageNoRef, ImageEmptyRef, ImageSized, ImageXlink, DescBlank, DescCover,
     SvgInnerRef, SvgInnerNoRef}

SvgElements ==
    {Elem("svg", "viewBox" :> <<"0">>, <<>>, kids, <<>>) :
        kids \in UNION {[1..n -> SvgKids] : n \in 0..MaxSvgKids}}

NormSnippets ==
    {<<>>, ImgXmlSnippet}
    \cup {tostring(svg) : svg \in SvgElements}
    \cup {tostring([svg EXCEPT !.tail = <<"\n">>]) \o tostring(SvgA) : svg \in SvgElements}
    \cup {tostring(Elem("div", NoAttrs, <<>>, <<svg>>, <<>>)) : svg \in SvgElements}
    \cup {CharUnits(<<"x">>) \o tostring(svg) : svg \in SvgElements}

InitNorm ==
    /\ pc = "normalize"
    /\ RestIdle
    /\ n_in \in NormSnippets
    /\ n_out = <<>> /\ n_twice = <<>>
    /\ r_text = <<>> /\ r_meta = <<>> /\ r_blocks = <<>> /\ r_out = <<>>
    /\ toc_entries = <<>> /\ chapters = <<>> /\ toc_result = <<>>
    /\ raw_content = <<>> /\ heap = <<>> /\ body = 0 /\ nodes = <<>> /\ idx = 0
    /\ placeholder_counter = 0 /\ extras = <<>> /\ taken = <<>>
    /\ text_content = <<>>

\* normalize_placeholder_html(n_in)
Normalize ==
    /\ pc = "normalize"
    /\ n_out' = normalize_placeholder_html(n_in)
    /\ pc' = "normalized"
    /\ UNCHANGED <<restVars, n_in, n_twice, renderVars, tocVars, extractVars>>

\* normalize_placeholder_html applied to its own result
NormalizeAgain ==
    /\ pc = "normalized"
    /\ n_twice' = normalize_placeholder_html(n_out)
    /\ pc' = "normalized twice"
    /\ UNCHANGED <<restVars, n_in, n_out, renderVars, tocVars, extractVars>>

NextNorm == Normalize \/ NormalizeAgain
SpecNorm == InitNorm /\ [][NextNorm]_vars

\* The references of the image elements in the subtree of n
ImageRefs(n) ==
    LET found == IterNodes(n)
    IN  {AttrGet(found[i], a) : i \in {j \in 1..Len(found) : found[j].tag = "image"},
                                a \in {"href", "xlink:href"}} \ {<<>>}

HasSvg(n) == \E i \in 1..Len(IterNodes(n)) : IterNodes(n)[i].tag = "svg"

(***************************************************************************)
(* C6.  Normalizing a normalized snippet changes nothing.                  *)
(***************************************************************************)
C6_NormalizerIdempotent ==
    pc = "normalized twice" => n_twice = n_out

\* An svg with a nested svg beside a second svg has been normalized twice,
\* and the first normalization replaced something
C6_Witness ==
    /\ pc = "normalized twice"
    /\ n_in = tostring(Elem("svg", "viewBox" :> <<"0">>, <<>>,
                            <<ImageNoRef, SvgInnerRef>>, <<"\n">>))
              \o tostring(SvgA)
    /\ n_out # n_in
    /\ HasSvg(FragmentFromString(n_out))

(***************************************************************************)
(* C7.  Every svg element of the snippet that contains an image element    *)
(* with a non-empty reference is replaced by an img element with that      *)
(* reference as src; an svg without an image reference stays; a snippet in *)
(* which no svg is replaced is returned as it came.  Stated for the svg    *)
(* elements at the top level of the snippet.                               *)
(***************************************************************************)
C7_SvgWithImageRefReplaced ==
    pc = "normalized" =>
        LET in == FragmentFromString(n_in).kids
            out == FragmentFromString(n_out).kids
        IN  /\ Len(out) = Len(in)
            /\ \A k \in 1..Len(in) :
                   in[k].tag = "svg" =>
                       IF ImageRefs(in[k]) # {}
                       THEN /\ out[k].tag = "img"
                            /\ AttrGet(out[k], "src") \in ImageRefs(in[k])
                       ELSE out[k] = [in[k] EXCEPT !.tail = out[k].tail]
            /\ (\A k \in 1..Len(in) : out[k].tag = in[k].tag) => n_out = n_in

(***************************************************************************)
(* build_epub.py: build_toc.                                               *)
(*                                                                         *)
(* A serialized node is [kind, title, href, uid, file_name, children]; a   *)
(* key the JSON object lacks reads as "" (the code tests .get() results    *)
(* for truth only).  A chapter object is [id, title], held by file name.   *)
(***************************************************************************)
TocNode(kind, title, file_name, children) ==
    [kind |-> kind, title |-> title, href |-> "", uid |-> "",
     file_name |-> file_name, children |-> children]

\* x or y, on JSON strings
OrStr(x, y) == IF x # "" THEN x ELSE y

\* raise SystemExit(...)
Raised(titles) == [fatal |-> TRUE, value |-> <<>>, titles |-> titles]
Returned(value, titles) == [fatal |-> FALSE, value |-> value, titles |-> titles]

\* Mutant: a reference to an unknown chapter is passed over
ConvertHtmlSkipUnknown(entry, children, titles) ==
    IF entry.file_name \notin DOMAIN titles
    THEN Returned([t |-> "tuple", items |-> children], titles)
    ELSE LET titled == IF entry.title # ""
                       THEN [titles EXCEPT ![entry.file_name].title = entry.title]
                       ELSE titles
             item == [t |-> "item", file_name |-> entry.file_name]
         IN  IF children # <<>>
             THEN Returned([t |-> "pair", node |-> item, items |-> children], titled)
             ELSE Returned(item, titled)

\* _convert, kind == "html"
ConvertHtml(entry, children, titles) ==
    IF entry.file_name \notin DOMAIN titles THEN Raised(titles)
    ELSE LET titled == IF entry.title # ""
                       THEN [titles EXCEPT ![entry.file_name].title = entry.title]
                       ELSE titles
             item == [t |-> "item", file_name |-> entry.file_name]
         IN  IF children # <<>>
             THEN Returned([t |-> "pair", node |-> item, items |-> children], titled)
             ELSE Returned(item, titled)

\* _convert, kind == "link"
ConvertLink(entry, children, titles) ==
    LET link == [t |-> "link",
                 href |-> entry.href,
                 title |-> OrStr(entry.title, OrStr(entry.href, "Link")),
                 uid |-> OrStr(entry.uid, OrStr(entry.href, OrStr(entry.title, "link")))]
    IN  IF children # <<>>
        THEN Returned([t |-> "pair", node |-> link, items |-> children], titles)
        ELSE Returned(link, titles)

\* _convert(entry), and the list comprehensions over children and entries:
\* the children first, in order; an exception of any of them ends the call
RECURSIVE Convert(_, _)
RECURSIVE ConvertAll(_, _)
ConvertAll(entries, titles) ==
    IF entries = <<>> THEN Returned(<<>>, titles)
    ELSE LET first == Convert(Head(entries), titles)
         IN  IF first.fatal THEN first
             ELSE LET rest == ConvertAll(Tail(entries), first.titles)
                  IN  IF rest.fatal THEN rest
                      ELSE Returned(<<first.value>> \o rest.value, rest.titles)

\* Mutant: the title of an html node is set before its children are converted
ConvertParentFirst(entry, titles) ==
    LET first == IF /\ entry.kind = "html"
                    /\ entry.file_name \in DOMAIN titles
                    /\ entry.title # ""
                 THEN [titles EXCEPT ![entry.file_name].title = entry.title]
                 ELSE titles
        kids == ConvertAll(entry.children, first)
        children == kids.value
    IN  IF kids.fatal THEN kids
        ELSE CASE entry.kind = "section" ->
                      Returned([t |-> "pair",
                                node |-> [t |-> "section",
                                          title |-> OrStr(entry.title, "Section")],
                                items |-> children], kids.titles)
               [] entry.kind = "html" ->
                      ConvertHtml([entry EXCEPT !.title = ""], children, kids.titles)
               [] entry.kind = "link" -> ConvertLink(entry, children, kids.titles)
               [] OTHER ->
                      IF children # <<>>
                      THEN Returned([t |-> "tuple", items |-> children], kids.titles)
                      ELSE Returned([t |-> "str", s |-> OrStr(entry.title, "Untitled")],
                                    kids.titles)

Convert(entry, titles) ==
    LET kids == ConvertAll(entry.children, titles)
        children == kids.value
    IN  IF kids.fatal THEN kids
        ELSE CASE entry.kind = "section" ->
                      Returned([t |-> "pair",
                                node |-> [t |-> "section",
                                          title |-> OrStr(entry.title, "Section")],
                                items |-> children], kids.titles)
               [] entry.kind = "html" -> ConvertHtml(entry, children, kids.titles)
               [] entry.kind = "link" -> ConvertLink(entry, children, kids.titles)
               [] OTHER ->
                      IF children # <<>>
                      THEN Returned([t |-> "tuple", items |-> children], kids.titles)
                      ELSE Returned([t |-> "str", s |-> OrStr(entry.title, "Untitled")],
                                    kids.titles)

build_toc(entries, chaps) == ConvertAll(entries, chaps)

(***************************************************************************)
(* Inputs of build_toc: trees of up to three levels over two chapters.     *)
(***************************************************************************)
Ch1 == "ch1.xhtml"
Ch2 == "ch2.xhtml"
Gone == "gone.xhtml"
ChapterSets ==
    { (Ch1 :> [id |-> "c1", title |-> "One"]) @@ (Ch2 :> [id |-> "c2", title |-> "Two"]),
      (Ch1 :> [id |-> "c1", title |-> "One"]) }

TocLeaves ==
    { TocNode("section", "Part", "", <<>>),
      TocNode("html", "First", Ch1, <<>>),
      TocNode("html", "", Ch1, <<>>),
      TocNode("html", "Second", Ch2, <<>>),
      TocNode("html", "Lost", Gone, <<>>),
      TocNode("html", "", "", <<>>),
      [TocNode("link", "", "", <<>>) EXCEPT !.href = "ch1.xhtml#a"],
      TocNode("link", "", "", <<>>),
      TocNode("link", "Note", "", <<>>),
      [TocNode("link", "Note", "", <<>>) EXCEPT !.href = "ch1.xhtml#a"],
      [TocNode("link", "Note", "", <<>>) EXCEPT !.href = "ch1.xhtml#a", !.uid = "n1"],
      TocNode("unknown", "", "", <<>>) }

TocKinds == {"section", "html", "link", "unknown"}

TocParents ==
    {TocNode(kind, "Top", IF kind = "html" THEN Ch1 ELSE "", kids) :
        kind \in TocKinds,
        kids \in UNION {[1..n -> TocLeaves] : n \in 1..MaxTocChildren}}

TocInputs ==
    {<<>>}
    \cup {<<n>> : n \in TocLeaves \cup TocParents}
    \cup {<<TocNode(kind, "", IF kind = "html" THEN Ch2 ELSE "", <<n>>),
            TocNode("html", "Again", Ch1, <<>>)>> :
             kind \in TocKinds, n \in TocParents}

InitToc ==
    /\ pc = "toc"
    /\ RestIdle
    /\ toc_entries \in TocInputs
    /\ chapters \in ChapterSets
    /\ toc_result = <<>>
    /\ r_text = <<>> /\ r_meta = <<>> /\ r_blocks = <<>> /\ r_out = <<>>
    /\ n_in = <<>> /\ n_out = <<>> /\ n_twice = <<>>
    /\ raw_content = <<>> /\ heap = <<>> /\ body = 0 /\ nodes = <<>> /\ idx = 0
    /\ placeholder_counter = 0 /\ extras = <<>> /\ taken = <<>>
    /\ text_content = <<>>

\* book.toc = build_toc(metadata["toc"], chapters); a SystemExit ends the run
BuildToc ==
    /\ pc = "toc"
    /\ LET built == build_toc(toc_entries, chapters)
       IN  /\ chapters' = built.titles
           /\ toc_result' = IF built.fatal THEN <<>> ELSE built.value
           /\ pc' = IF built.fatal THEN "exit" ELSE "toc built"
    /\ UNCHANGED <<restVars, toc_entries, renderVars, normVars, extractVars>>

NextToc == BuildToc
SpecToc == InitToc /\ [][NextToc]_vars

\* The nodes of a serialized TOC, at every depth
RECURSIVE TocNodes(_)
TocNodes(entries) ==
    UNION {{entries[i]} \cup TocNodes(entries[i].children) : i \in 1..Len(entries)}

UnknownChapterNodes(entries, chaps) ==
    {n \in TocNodes(entries) : n.kind = "html" /\ n.file_name \notin DOMAIN chaps}

(***************************************************************************)
(* C10.  build_toc ends the run with a fatal error exactly when some node  *)
(* of kind html, at any depth and under a node of any kind, names a file   *)
(* that is not in the chapter lookup; it then returns no TOC, and          *)
(* otherwise it returns one element per entry.                             *)
(***************************************************************************)
C10_UnknownChapterIsFatal ==
    /\ pc = "exit" =>
           /\ UnknownChapterNodes(toc_entries, chapters) # {}
           /\ toc_result = <<>>
    /\ pc = "toc built" =>
           /\ UnknownChapterNodes(toc_entries, chapters) = {}
           /\ Len(toc_result) = Len(toc_entries)

\* The run ended on an unknown chapter two levels down, below a node of
\* unrecognized kind
C10_Witness ==
    /\ pc = "exit"
    /\ \E i \in 1..Len(toc_entries) :
           /\ toc_entries[i].kind = "unknown"
           /\ \E j \in 1..Len(toc_entries[i].children) :
                  UnknownChapterNodes(toc_entries[i].children[j].children, chapters) # {}


(***************************************************************************)
(* extract_epub.py: the parsed chapter.  Elements have identity: the       *)
(* sweep of extract_text_and_extras walks a list of elements collected     *)
(* beforehand while it rewrites the tree.  heap[e] is the element e,       *)
(* [tag, at, text, tail, parent, kids]; parent 0 is None.  The chapters    *)
(* modelled hold elements only (no comments, no processing instructions).  *)
(***************************************************************************)
SPECIAL_MEDIA_TAGS == {"svg", "img", "image", "object", "iframe"}
TEXT_IGNORE_TAGS == {"desc", "title"}

Node(tag, at, text, tail, parent, kids) ==
    [tag |-> tag, at |-> at, text |-> text, tail |-> tail, parent |-> parent,
     kids |-> kids]

\* isinstance(elem.tag, str)
IsElement(h, e) == h[e].tag # "#comment"

\* list(elem.iter())
RECURSIVE Iter(_, _)
Iter(h, e) ==
    <<e>> \o Concat([i \in 1..Len(h[e].kids) |-> Iter(h, h[e].kids[i])])

_node_has_special_media(h, elem) ==
    LET found == Iter(h, elem)
    IN  \E i \in 1..Len(found) :
            IsElement(h, found[i]) /\ h[found[i]].tag \in SPECIAL_MEDIA_TAGS

\* Mutant: tail text does not count as meaningful text
HasMeaningfulTextNoTail(h, elem) ==
    LET found == Iter(h, elem)
    IN  \E i \in 1..Len(found) :
            ~IsBlank(h[found[i]].text) /\ h[found[i]].tag \notin TEXT_IGNORE_TAGS

_has_meaningful_text(h, elem) ==
    LET found == Iter(h, elem)
    IN  \/ ~IsBlank(h[elem].text) /\ h[elem].tag \notin TEXT_IGNORE_TAGS
        \/ \E i \in 1..Len(found) :
              /\ found[i] # elem
              /\ \/ ~IsBlank(h[found[i]].text)
                       /\ h[found[i]].tag \notin TEXT_IGNORE_TAGS
                 \/ ~IsBlank(h[found[i]].tail)

\* the while loop over elem.getparent(), parent.getparent(), ...
RECURSIVE SpecialAbove(_, _)
SpecialAbove(h, parent) ==
    IF parent = 0 \/ ~IsElement(h, parent) THEN FALSE
    ELSE IF _node_has_special_media(h, parent) /\ ~_has_meaningful_text(h, parent)
         THEN TRUE
         ELSE SpecialAbove(h, h[parent].parent)

\* Mutant: the ancestors of the element are not looked at
ShouldExtractAtAnyDepth(h, elem) ==
    /\ IsElement(h, elem)
    /\ _node_has_special_media(h, elem)
    /\ ~_has_meaningful_text(h, elem)

_should_extract_special_block(h, elem) ==
    /\ IsElement(h, elem)
    /\ _node_has_special_media(h, elem)
    /\ ~_has_meaningful_text(h, elem)
    /\ ~SpecialAbove(h, h[elem].parent)

\* copy.deepcopy(elem): the subtree as a tree of its own, tail included
RECURSIVE DeepCopy(_, _)
DeepCopy(h, e) ==
    [tag |-> h[e].tag, at |-> h[e].at, text |-> h[e].text, tail |-> h[e].tail,
     kids |-> [i \in 1..Len(h[e].kids) |-> DeepCopy(h, h[e].kids[i])],
     sc |-> FALSE]

\* new_key of _sanitize_special_block
SanitizedKey(lname, key) ==
    IF lname = "svg"
    THEN CASE LowerName(key) = "viewbox" -> "viewBox"
           [] LowerName(key) = "preserveaspectratio" -> "preserveAspectRatio"
           [] OTHER -> key
    ELSE key

RECURSIVE SanitizeAttrs(_)
SanitizeAttrs(n) ==
    [n EXCEPT
       !.at = [k \in {SanitizedKey(n.tag, a) : a \in DOMAIN n.at} |->
                  n.at[CHOOSE a \in DOMAIN n.at : SanitizedKey(n.tag, a) = k]],
       !.kids = [i \in 1..Len(n.kids) |-> SanitizeAttrs(n.kids[i])]]

_sanitize_special_block(h, elem) == tostring(SanitizeAttrs(DeepCopy(h, elem)))

\* elem.text_content(): all text below elem in document order
RECURSIVE TextContent(_, _)
TextContent(h, e) ==
    h[e].text
    \o Concat([i \in 1..Len(h[e].kids) |->
                  TextContent(h, h[e].kids[i]) \o h[h[e].kids[i]].tail])

_normalize_text_output(text) ==
    LET lines == SplitLines(ReplaceCRLF(text))
        joined == Join([i \in 1..Len(lines) |-> RStripChars(lines[i], WS)],
                       <<"\n">>)
    IN  StripChars(CollapseNewlines(joined), WS)

\* PLACEHOLDER_PATTERN.sub(lambda match: f"\n\n{match.group(0)}\n\n", s)
RECURSIVE SurroundTokensFrom(_, _)
SurroundTokensFrom(s, i) ==
    IF i > Len(s) THEN <<>>
    ELSE IF PLACEHOLDER_PATTERN(s, i)
         THEN <<"\n", "\n">> \o SubSeq(s, i, i + 23) \o <<"\n", "\n">>
              \o SurroundTokensFrom(s, i + 24)
         ELSE <<s[i]>> \o SurroundTokensFrom(s, i + 1)
SurroundTokens(s) == SurroundTokensFrom(s, 1)

_ensure_blank_after_title(text) ==
    LET lines == SplitLines(text)
        title == RStripChars(lines[1], WS)
        rest == LStripChars(Join(Tail(lines), <<"\n">>), NL)
    IN  IF text = <<>> \/ lines = <<>> THEN text
        ELSE IF rest # <<>> THEN title \o <<"\n", "\n">> \o rest
             ELSE title \o <<"\n">>

\* lines 289-295 of extract_text_and_extras
EmittedText(h, b) ==
    _ensure_blank_after_title(
        StripChars(CollapseNewlines(SurroundTokens(
            _normalize_text_output(TextContent(h, b)))), WS))

(***************************************************************************)
(* Chapters handed to extract_text_and_extras.  A chapter is given by what *)
(* lxml makes of it: the shape of the document around the body and up to   *)
(* MaxNodes elements below the body, each of a kind, under a parent        *)
(* (0 is the body) and followed by a tail.                                 *)
(*   titled    <html><head><title>T</title></head><body>...</body></html>  *)
(*   styled    the same with <style>s</style> for the title                *)
(*   fragment  markup without a head: lxml hands back the only element of  *)
(*             the body, or else the body renamed div or span; either is   *)
(*             still below the html root                                   *)
(*   empty, blank   nothing to parse: lxml raises ParserError              *)
(***************************************************************************)
ParsedShapes == {"titled", "styled", "fragment"}
UnparsedShapes == {"empty", "blank"}
ContentKinds == {"div", "p", "img", "svg", "image", "desc"}
VoidKinds == {"img", "image"}
Tails == {<<>>, <<"\n">>, <<"t">>}

KindText(kind) ==
    CASE kind = "p" -> <<"a">>
      [] kind = "desc" -> <<"c">>
      [] OTHER -> <<>>

KindAttrs(kind) ==
    CASE kind = "img" -> "src" :> <<"a", ".", "p", "n", "g">>
      [] kind = "image" -> Href(<<"b", ".", "p", "n", "g">>)
      [] kind = "svg" -> "viewbox" :> <<"0">>
      [] OTHER -> NoAttrs

\* the element i of a nesting and the elements above it
RECURSIVE Chain(_, _)
Chain(par, i) ==
    IF i = 0 THEN {0}
    ELSE {i} \cup (IF par[i] < i THEN Chain(par, par[i]) ELSE {})

\* the ways to nest elements of the given kinds, listed in document order
Nestings(kinds) ==
    LET k == Len(kinds)
    IN  IF k = 0 THEN {<<>>}
        ELSE {par \in [1..k -> 0..(k - 1)] :
                \A j \in 1..k :
                    /\ par[j] < j
                    /\ par[j] # 0 => kinds[par[j]] \notin VoidKinds
                    /\ j > 1 => par[j] \in Chain(par, j - 1)}

Chapter(shape, kinds, par, tails) ==
    [shape |-> shape, kinds |-> kinds, par |-> par, tails |-> tails]

\* raw_content.decode("utf-8", errors="ignore")
Decoded(raw) == IF raw.shape = "blank" THEN <<" ", "\n">> ELSE <<>>

\* lhtml.fromstring(raw_content): the elements and the one handed back
fromstring(raw) ==
    LET base == IF raw.shape = "fragment" THEN 2 ELSE 4
        k == Len(raw.kinds)
        KidsOf(j) ==
            LET below == SelectSeq([i \in 1..k |-> i], LAMBDA i : raw.par[i] = j)
            IN  [x \in 1..Len(below) |-> base + below[x]]
        tops == KidsOf(0)
        \* the body holds just one element and no text around it
        single == Len(tops) = 1 /\ IsBlank(raw.tails[tops[1] - base])
        wrapper == IF single THEN "body"
                   ELSE IF \E j \in 1..k : raw.kinds[j] \in {"div", "p"}
                        THEN "div" ELSE "span"
        around ==
            IF raw.shape = "fragment"
            THEN <<Node("html", NoAttrs, <<>>, <<>>, 0, <<2>>),
                   Node(wrapper, NoAttrs, <<>>, <<>>, 1, tops)>>
            ELSE <<Node("html", NoAttrs, <<>>, <<>>, 0, <<2, 4>>),
                   Node("head", NoAttrs, <<>>, <<>>, 1, <<3>>),
                   IF raw.shape = "titled"
                   THEN Node("title", NoAttrs, <<"T">>, <<>>, 2, <<>>)
                   ELSE Node("style", NoAttrs, <<"s">>, <<>>, 2, <<>>),
                   Node("body", NoAttrs, <<>>, <<>>, 1, tops)>>
        below ==
            [j \in 1..k |->
                Node(raw.kinds[j], KindAttrs(raw.kinds[j]), KindText(raw.kinds[j]),
                     raw.tails[j],
                     IF raw.par[j] = 0 THEN base ELSE base + raw.par[j],
                     KidsOf(j))]
    IN  [heap |-> around \o below,
         tree |-> IF raw.shape # "fragment" THEN 1
                  ELSE IF single THEN 3 ELSE 2]

\* tree.find("body"), and tree itself when there is none
FindBody(h, tree) ==
    LET hits == {i \in 1..Len(h[tree].kids) : h[h[tree].kids[i]].tag = "body"}
    IN  IF hits = {} THEN tree
        ELSE h[tree].kids[CHOOSE i \in hits : \A j \in hits : i <= j]

\* parent.replace(elem, replacement) with the new element p: elem leaves
\* the tree and keeps its own tail
ReplaceElement(h, parent, elem, replacement) ==
    Append([h EXCEPT ![parent].kids =
                        [i \in 1..Len(h[parent].kids) |->
                            IF h[parent].kids[i] = elem THEN Len(h) + 1
                            ELSE h[parent].kids[i]],
                     ![elem].parent = 0],
           replacement)

InitExtract ==
    /\ pc = "call"
    /\ RestIdle
    /\ \/ \E shape \in UnparsedShapes :
              raw_content = Chapter(shape, <<>>, <<>>, <<>>)
       \/ \E k \in 0..MaxNodes : \E kinds \in [1..k -> ContentKinds] :
              \E par \in Nestings(kinds) : \E tails \in [1..k -> Tails] :
                 \E shape \in ParsedShapes :
                    raw_content = Chapter(shape, kinds, par, tails)
    /\ heap = <<>> /\ body = 0 /\ nodes = <<>> /\ idx = 0
    /\ placeholder_counter \in {1, MaxNodes + 1}
    /\ extras = <<>> /\ taken = <<>> /\ text_content = <<>>
    /\ r_text = <<>> /\ r_meta = <<>> /\ r_blocks = <<>> /\ r_out = <<>>
    /\ n_in = <<>> /\ n_out = <<>> /\ n_twice = <<>>
    /\ toc_entries = <<>> /\ chapters = <<>> /\ toc_result = <<>>

\* lines 261-264: the chapter does not parse
ParseFails ==
    /\ pc = "call"
    /\ raw_content.shape \in UnparsedShapes
    /\ text_content' = Decoded(raw_content)
    /\ extras' = <<>>
    /\ pc' = "extracted"
    /\ UNCHANGED <<restVars, raw_content, heap, body, nodes, idx, placeholder_counter,
                   taken, renderVars, normVars, tocVars>>

\* lines 262-270: parse, find the body, collect its elements
BeginSweep ==
    /\ pc = "call"
    /\ raw_content.shape \in ParsedShapes
    /\ LET parsed == fromstring(raw_content)
           found == FindBody(parsed.heap, parsed.tree)
       IN  /\ heap' = parsed.heap
           /\ body' = found
           /\ nodes' = Iter(parsed.heap, found)
    /\ extras' = <<>>
    /\ taken' = <<>>
    /\ placeholder_counter' = 1
    /\ idx' = 1
    /\ pc' = "sweep"
    /\ UNCHANGED <<restVars, raw_content, text_content, renderVars, normVars, tocVars>>

\* lines 272-277: one pass of the loop that ends in continue
SkipElement ==
    /\ pc = "sweep"
    /\ idx <= Len(nodes)
    /\ LET elem == nodes[idx]
       IN  \/ ~IsElement(heap, elem)
           \/ heap[elem].parent = 0 /\ elem # body
           \/ ~_should_extract_special_block(heap, elem)
    /\ idx' = idx + 1
    /\ UNCHANGED <<restVars, pc, raw_content, heap, body, nodes, placeholder_counter,
                   extras, taken, text_content, renderVars, normVars, tocVars>>

\* lines 278-288: one pass of the loop that records a block
ExtractBlock ==
    /\ pc = "sweep"
    /\ idx <= Len(nodes)
    /\ LET elem == nodes[idx]
           placeholder == PLACEHOLDER_TEMPLATE(placeholder_counter)
           sanitized == _sanitize_special_block(heap, elem)
           parent == heap[elem].parent
           replacement == Node("p", NoAttrs, placeholder, heap[elem].tail,
                               parent, <<>>)
       IN  /\ IsElement(heap, elem)
           /\ ~(heap[elem].parent = 0 /\ elem # body)
           /\ _should_extract_special_block(heap, elem)
           /\ extras' = Append(extras, Record(placeholder, sanitized))
           /\ taken' = Append(taken, elem)
           /\ heap' = IF parent = 0 THEN heap
                      ELSE ReplaceElement(heap, parent, elem, replacement)
    /\ placeholder_counter' = placeholder_counter + 1
    /\ idx' = idx + 1
    /\ UNCHANGED <<restVars, pc, raw_content, body, nodes, text_content, renderVars,
                   normVars, tocVars>>

\* lines 289-296: the loop is over, the text is taken from the tree
FinishSweep ==
    /\ pc = "sweep"
    /\ idx > Len(nodes)
    /\ text_content' = EmittedText(heap, body)
    /\ pc' = "extracted"
    /\ UNCHANGED <<restVars, raw_content, heap, body, nodes, idx, placeholder_counter,
                   extras, taken, renderVars, normVars, tocVars>>

\* build_epub.create_item: the chapter is rebuilt from the text and the
\* records that extraction wrote
Rebuild ==
    /\ pc = "extracted"
    /\ r_text' = text_content
    /\ r_meta' = extras
    /\ r_blocks' = RenderBlocks(text_content, extras)
    /\ r_out' = render_text_with_extras(text_content, extras)
    /\ pc' = "rebuilt"
    /\ UNCHANGED <<restVars, extractVars, normVars, tocVars>>

NextExtract ==
    \/ ParseFails
    \/ BeginSweep
    \/ SkipElement
    \/ ExtractBlock
    \/ FinishSweep
    \/ Rebuild

SpecExtract == InitExtract /\ [][NextExtract]_vars

(***************************************************************************)
(* What the claims about extraction are stated in: the chapter as it was   *)
(* parsed, before the sweep rewrote it, and subtrees found by walking up   *)
(* from every element rather than down from the root.                      *)
(***************************************************************************)
Original == fromstring(raw_content).heap
OriginalBody == FindBody(Original, fromstring(raw_content).tree)

RECURSIVE Above(_, _)
Above(h, e) ==
    IF h[e].parent = 0 THEN {} ELSE {h[e].parent} \cup Above(h, h[e].parent)

Below(h, e) == {d \in 1..Len(h) : d = e \/ e \in Above(h, d)}

HasInk(s) == \E i \in 1..Len(s) : s[i] \notin {" ", "\n", "\r", "\t"}

MediaBelow(h, e) ==
    \E d \in Below(h, e) : h[d].tag \in {"svg", "img", "image", "object", "iframe"}

MeaningfulTextBelow(h, e) ==
    \E d \in Below(h, e) :
        \/ HasInk(h[d].text) /\ h[d].tag \notin {"desc", "title"}
        \/ d # e /\ HasInk(h[d].tail)

SpecialNonTextual(h, e) == MediaBelow(h, e) /\ ~MeaningfulTextBelow(h, e)

KidTags(h, e) == [i \in 1..Len(h[e].kids) |-> h[h[e].kids[i]].tag]

(***************************************************************************)
(* C3.  Within one call the k-th record carries the token                  *)
(* [[EPUB_HTML_BLOCK_k]] with k written in 4 digits, the records follow    *)
(* the document order of the blocks they hold, no token is used twice,     *)
(* and the counter starts from 1 whatever an earlier call left behind:     *)
(* throughout the sweep it is one more than the number of records.         *)
(***************************************************************************)
FourDigits(k) ==
    <<Digits[((k \div 1000) % 10) + 1], Digits[((k \div 100) % 10) + 1],
      Digits[((k \div 10) % 10) + 1], Digits[(k % 10) + 1]>>

C3_PlaceholderNumbering ==
    /\ pc = "sweep" => placeholder_counter = Len(extras) + 1
    /\ Len(taken) = Len(extras)
    /\ \A k \in 1..Len(extras) :
          extras[k].placeholder =
              <<"[", "[", "E", "P", "U", "B", "_", "H", "T", "M", "L", "_",
                "B", "L", "O", "C", "K", "_">> \o FourDigits(k) \o <<"]", "]">>
    /\ \A j, k \in 1..Len(extras) :
          /\ j # k => extras[j].placeholder # extras[k].placeholder
          /\ j < k => taken[j] < taken[k]

\* Three blocks were recorded in one chapter
C3_Witness == pc = "extracted" /\ Len(extras) = 3

(***************************************************************************)
(* C4.  The classifier finds an element special and non-textual exactly    *)
(* when the element or something below it is a media element and nothing   *)
(* there is meaningful text: text of an element other than desc / title    *)
(* that is not white space, or such a tail of an element below.  A div     *)
(* holding just an image and a caption is special exactly when no prose    *)
(* follows the image or the caption.                                       *)
(***************************************************************************)
C4_Classifier ==
    \A e \in 1..Len(heap) :
        /\ (_node_has_special_media(heap, e) /\ ~_has_meaningful_text(heap, e))
              <=> SpecialNonTextual(heap, e)
        /\ (/\ heap[e].tag = "div" /\ KidTags(heap, e) = <<"img", "desc">>
            /\ \A k \in 1..2 : heap[heap[e].kids[k]].kids = <<>>)
              => ((_node_has_special_media(heap, e) /\ ~_has_meaningful_text(heap, e))
                     <=> \A i \in 1..2 : ~HasInk(heap[heap[e].kids[i]].tail))

\* A div holding an image and a caption was recorded as a block
C4_Witness ==
    /\ pc = "extracted"
    /\ \E i \in 1..Len(taken) :
          /\ Original[taken[i]].tag = "div"
          /\ KidTags(Original, taken[i]) = <<"img", "desc">>
          /\ HasInk(Original[Original[taken[i]].kids[2]].text)

(***************************************************************************)
(* C5.  Every element recorded during a sweep is special and non-textual   *)
(* in the chapter as parsed and has no such element above it; no recorded  *)
(* element lies below another one; and once the sweep is over, two         *)
(* adjacent special children of a container that is not special hold       *)
(* consecutive records.                                                    *)
(***************************************************************************)
C5_OutermostOnly ==
    /\ \A i \in 1..Len(taken) :
          /\ SpecialNonTextual(Original, taken[i])
          /\ \A a \in Above(Original, taken[i]) : ~SpecialNonTextual(Original, a)
          /\ \A j \in 1..Len(taken) : taken[j] \notin Above(Original, taken[i])
    /\ pc \in {"extracted", "rebuilt"} /\ raw_content.shape \in ParsedShapes
          => \A c \in 1..Len(Original) :
                \A x \in 1..(Len(Original[c].kids) - 1) :
                    LET s1 == Original[c].kids[x]
                        s2 == Original[c].kids[x + 1]
                    IN  /\ ~SpecialNonTextual(Original, c)
                        /\ SpecialNonTextual(Original, s1)
                        /\ SpecialNonTextual(Original, s2)
                        => \E i \in 1..(Len(taken) - 1) :
                               taken[i] = s1 /\ taken[i + 1] = s2

\* The sweep is over and a recorded block holds a special element of its own
C5_Witness ==
    /\ pc = "extracted"
    /\ \E i \in 1..Len(taken) :
          \E d \in Below(Original, taken[i]) :
              d # taken[i] /\ SpecialNonTextual(Original, d)

(***************************************************************************)
(* C1.  A chapter whose prose is the text of p elements and whose other    *)
(* elements are special blocks, extracted and rebuilt, comes back as the   *)
(* same special blocks, normalized, in the same order, and as many         *)
(* paragraphs with the same text.                                          *)
(***************************************************************************)
InBody == Below(Original, OriginalBody)

\* The outermost special elements of the body, in document order
SpecialBlocks ==
    Sorted({e \in InBody :
               /\ SpecialNonTextual(Original, e)
               /\ \A a \in Above(Original, e) \cap InBody :
                     ~SpecialNonTextual(Original, a)})

ProseParagraphs == Sorted({e \in InBody : Original[e].tag = "p"})

\* The chapter is prose in p elements next to special blocks, nothing else
PlainChapter ==
    /\ raw_content.shape \in ParsedShapes
    /\ \A e \in InBody :
          /\ e # OriginalBody => ~HasInk(Original[e].tail)
          /\ Original[e].tag = "p" => Original[e].kids = <<>>
          /\ Original[e].tag = "desc" =>
                \E a \in Above(Original, e) \cap InBody :
                    SpecialNonTextual(Original, a)

IsParagraphBlock(b) == \A i \in 1..Len(b) : IsCharUnit(b[i])

\* The elements of a block, read as the HTML parser reads them
BlockElements(b) ==
    LET es == SelectSeq(b, LAMBDA u : ~IsCharUnit(u))
    IN  [i \in 1..Len(es) |-> Parsed(es[i].e)]

OriginalMarkup(e) == <<[e |-> [DeepCopy(Original, e) EXCEPT !.tail = <<>>]]>>

C1_RoundTrip ==
    pc = "rebuilt" /\ PlainChapter =>
        LET verbatim == SelectSeq(r_blocks, LAMBDA b : ~IsParagraphBlock(b))
            prose == SelectSeq(r_blocks, IsParagraphBlock)
        IN  /\ Len(verbatim) = Len(SpecialBlocks)
            /\ \A i \in 1..Len(verbatim) :
                  BlockElements(verbatim[i]) =
                      BlockElements(normalize_placeholder_html(
                                        OriginalMarkup(SpecialBlocks[i])))
            /\ Len(prose) = Len(ProseParagraphs)
            /\ \A i \in 1..Len(prose) :
                  UnitChars(prose[i]) =
                      <<"<", "p", ">">> \o Original[ProseParagraphs[i]].text
                      \o <<"<", "/", "p", ">">>

(***************************************************************************)
(* build_epub.py: build_spine.  The chapters are the values of a dict,     *)
(* here the sequence of its items in insertion order: [file_name, id]      *)
(* with distinct file names; an id that was never set is the empty string. *)
(* The returned list holds [t |-> "nav"] for the string "nav" and          *)
(* [t |-> "chapter", file_name] for a chapter object.                      *)
(***************************************************************************)
SpineChapter(file_name, id) == [file_name |-> file_name, id |-> id]

\* chapters.get(entry): 0 stands for None
ByFileName(chaps, entry) ==
    LET hits == {i \in 1..Len(chaps) : chaps[i].file_name = entry}
    IN  IF hits = {} THEN 0 ELSE CHOOSE i \in hits : TRUE

\* id_lookup.get(entry): the dict comprehension keeps, for an id that
\* several chapters carry, the last of them
ById(chaps, entry) ==
    LET hits == {i \in 1..Len(chaps) : chaps[i].id # "" /\ chaps[i].id = entry}
    IN  IF hits = {} THEN 0 ELSE CHOOSE i \in hits : \A j \in hits : j <= i

\* Mutant: the identifier is tried before the file name
ResolveIdFirst(chaps, entry) ==
    IF ById(chaps, entry) # 0 THEN ById(chaps, entry) ELSE ByFileName(chaps, entry)

\* chapters.get(entry) or id_lookup.get(entry)
Resolve(chaps, entry) ==
    IF ByFileName(chaps, entry) # 0 THEN ByFileName(chaps, entry)
    ELSE ById(chaps, entry)

NavMarker == [t |-> "nav"]
ChapterObject(chaps, i) == [t |-> "chapter", file_name |-> chaps[i].file_name]

\* the for loop of build_spine from entry i on
RECURSIVE SpineFrom(_, _, _, _)
SpineFrom(entries, chaps, i, out) ==
    IF i > Len(entries) THEN [fatal |-> FALSE, value |-> out]
    ELSE IF entries[i] = "nav"
         THEN SpineFrom(entries, chaps, i + 1, Append(out, NavMarker))
         ELSE IF Resolve(chaps, entries[i]) = 0
              THEN [fatal |-> TRUE, value |-> <<>>]
              ELSE SpineFrom(entries, chaps, i + 1,
                             Append(out, ChapterObject(chaps, Resolve(chaps, entries[i]))))

build_spine(entries, chaps) == SpineFrom(entries, chaps, 1, <<>>)

SpineStrings == {"nav", Ch1, Ch2, "c1", "c2", Gone, ""}

SpineChapterSets ==
    { <<SpineChapter(Ch1, "c1"), SpineChapter(Ch2, "c2")>>,
      <<SpineChapter(Ch1, Ch2), SpineChapter(Ch2, "c2")>>,
      <<SpineChapter(Ch1, "c1"), SpineChapter(Ch2, "c1")>>,
      <<SpineChapter(Ch1, ""), SpineChapter(Ch2, "c2")>>,
      <<SpineChapter(Ch1, "c2"), SpineChapter("c1", "nav")>>,
      <<SpineChapter(Ch1, "c1")>>,
      <<>> }

InitSpine ==
    /\ pc = "spine"
    /\ spine_entries \in UNION {[1..n -> SpineStrings] : n \in 0..MaxSpine}
    /\ spine_chapters \in SpineChapterSets
    /\ spine = <<>>
    /\ EarlierIdle /\ TranslateIdle /\ ItemsIdle /\ ReadIdle

\* book.spine = build_spine(metadata["spine"], chapters)
BuildSpine ==
    /\ pc = "spine"
    /\ LET built == build_spine(spine_entries, spine_chapters)
       IN  /\ spine' = built.value
           /\ pc' = IF built.fatal THEN "exit" ELSE "spine built"
    /\ UNCHANGED <<spine_entries, spine_chapters, renderVars, normVars, tocVars,
                   extractVars, translateVars, itemsVars, readVars>>

NextSpine == BuildSpine
SpecSpine == InitSpine /\ [][NextSpine]_vars

FileNamed(chaps, entry) == {c \in {chaps[i] : i \in 1..Len(chaps)} : c.file_name = entry}
Identified(chaps, entry) ==
    {c \in {chaps[i] : i \in 1..Len(chaps)} : entry # "" /\ c.id = entry}

(***************************************************************************)
(* C11.  build_spine returns a list as long as the stored one, entry by    *)
(* entry: "nav" stays the navigation marker; any other entry is the        *)
(* chapter with that file name if there is one, also when another chapter  *)
(* has the entry as its identifier, and otherwise a chapter with that      *)
(* identifier.  It ends the run exactly when some entry other than "nav"   *)
(* is neither a file name nor an identifier.  The stored spine             *)
(* nav, ch1.xhtml, ch2.xhtml over both chapters comes back as the marker   *)
(* and the two chapters.                                                   *)
(***************************************************************************)
C11_SpineResolution ==
    LET lost == {i \in 1..Len(spine_entries) :
                    /\ spine_entries[i] # "nav"
                    /\ FileNamed(spine_chapters, spine_entries[i]) = {}
                    /\ Identified(spine_chapters, spine_entries[i]) = {}}
    IN  /\ pc = "exit" => lost # {}
        /\ pc = "spine built" =>
              /\ lost = {}
              /\ Len(spine) = Len(spine_entries)
              /\ \A i \in 1..Len(spine) :
                    LET entry == spine_entries[i]
                    IN  IF entry = "nav" THEN spine[i] = [t |-> "nav"]
                        ELSE /\ spine[i].t = "chapter"
                             /\ IF FileNamed(spine_chapters, entry) # {}
                                THEN spine[i].file_name = entry
                                ELSE spine[i].file_name \in
                                        {c.file_name : c \in Identified(spine_chapters, entry)}
              /\ (spine_entries = <<"nav", "ch1.xhtml", "ch2.xhtml">>
                     /\ {c.file_name : c \in FileNamed(spine_chapters, "ch1.xhtml")
                                              \cup FileNamed(spine_chapters, "ch2.xhtml")}
                            = {"ch1.xhtml", "ch2.xhtml"})
                    => spine = <<[t |-> "nav"],
                                 [t |-> "chapter", file_name |-> "ch1.xhtml"],
                                 [t |-> "chapter", file_name |-> "ch2.xhtml"]>>

\* The spine was built from an entry that is the file name of one chapter
\* and the identifier of another, next to the navigation marker
C11_Witness ==
    /\ pc = "spine built"
    /\ \E i, j \in 1..Len(spine_entries) :
          /\ spine_entries[i] = "nav"
          /\ FileNamed(spine_chapters, spine_entries[j]) # {}
          /\ \E c \in Identified(spine_chapters, spine_entries[j]) :
                c.file_name # spine_entries[j]

(***************************************************************************)
(* build_translated_epub.py: apply_translation, as build_translated_       *)
(* chapters calls it for a chapter that has a translation file, and the    *)
(* rendering of what it returns.  translated_lines is what splitlines      *)
(* made of the translation file.                                           *)
(***************************************************************************)
\* trans if trans.strip() or not orig.strip() else orig
MergedLine(orig, trans) ==
    IF ~IsBlank(trans) \/ IsBlank(orig) THEN trans ELSE orig

\* Mutant: the lines are merged pairwise as far as both lists go
ApplyTranslationUnchecked(text, lines) ==
    LET original_lines == SplitLines(text)
        n == IF Len(lines) < Len(original_lines) THEN Len(lines)
             ELSE Len(original_lines)
    IN  [text |-> Join([i \in 1..n |-> MergedLine(original_lines[i], lines[i])],
                       <<"\n">>),
         warned |-> FALSE]

apply_translation(text, lines) ==
    LET original_lines == SplitLines(text)
    IN  IF Len(original_lines) # Len(lines)
        THEN [text |-> text, warned |-> TRUE]
        ELSE [text |-> Join([i \in 1..Len(lines) |->
                                 MergedLine(original_lines[i], lines[i])],
                            <<"\n">>),
              warned |-> FALSE]

OriginalPieces == {<<"a">>, <<" ">>, <<"\n">>, <<"\r">>}
TranslatedLines == {<<>>, <<" ">>, <<"b">>, <<"b", " ">>}

InitTranslate ==
    /\ pc = "translate"
    /\ original_text \in
          {Concat(ps) : ps \in UNION {[1..n -> OriginalPieces] : n \in 0..MaxOriginal}}
    /\ translated_lines \in UNION {[1..n -> TranslatedLines] : n \in 0..MaxTranslated}
    /\ text_to_use = <<>> /\ warned = FALSE /\ html_content = <<>>
    /\ EarlierIdle /\ SpineIdle /\ ItemsIdle /\ ReadIdle

\* build_translated_chapters, lines 120-137, for a chapter without records
Translate ==
    /\ pc = "translate"
    /\ LET applied == apply_translation(original_text, translated_lines)
       IN  /\ text_to_use' = applied.text
           /\ warned' = applied.warned
           /\ html_content' = render_text_with_extras(applied.text, <<>>)
    /\ pc' = "translated"
    /\ UNCHANGED <<original_text, translated_lines, renderVars, normVars, tocVars,
                   extractVars, spineVars, itemsVars, readVars>>

NextTranslate == Translate
SpecTranslate == InitTranslate /\ [][NextTranslate]_vars

\* The lines of a text: what stands before each line end, and what is left
\* after the last one if anything is
RECURSIVE LinesOf(_)
LinesOf(t) ==
    LET ends == {i \in 1..Len(t) : t[i] \in {"\n", "\r"}}
    IN  IF t = <<>> THEN <<>>
        ELSE IF ends = {} THEN <<t>>
        ELSE LET e == CHOOSE i \in ends : \A j \in ends : i <= j
                 crlf == t[e] = "\r" /\ e < Len(t) /\ t[e + 1] = "\n"
             IN  <<SubSeq(t, 1, e - 1)>>
                 \o LinesOf(SubSeq(t, (IF crlf THEN e + 2 ELSE e + 1), Len(t)))

(***************************************************************************)
(* C12.  When the translation has another number of lines than the         *)
(* original text, apply_translation logs a warning and returns the         *)
(* original text as it is, and the chapter is rendered from the original;  *)
(* when the numbers agree, line i of the result is line i of the           *)
(* translation, except that a blank translated line gives way to an        *)
(* original line that is not blank.                                        *)
(***************************************************************************)
C12_TranslationMismatchKeepsOriginal ==
    pc = "translated" =>
        LET lines == LinesOf(original_text)
        IN  IF Len(lines) # Len(translated_lines)
            THEN /\ text_to_use = original_text
                 /\ warned
                 /\ html_content = render_text_with_extras(original_text, <<>>)
            ELSE /\ ~warned
                 /\ text_to_use =
                       Join([i \in 1..Len(lines) |->
                                IF IsBlank(translated_lines[i]) /\ ~IsBlank(lines[i])
                                THEN lines[i] ELSE translated_lines[i]],
                            <<"\n">>)

\* A translation two lines short of an original of three lines was set aside
C12_Witness ==
    /\ pc = "translated"
    /\ Len(LinesOf(original_text)) = 3
    /\ Len(translated_lines) = 1
    /\ ~IsBlank(translated_lines[1])
    /\ text_to_use = original_text

(***************************************************************************)
(* extract_epub.py: storage paths.  A path (pathlib) is [root, parts]:     *)
(* the root is "", "/" or "//", the parts are the names below it.  Strings *)
(* are sequences of characters.                                            *)
(***************************************************************************)
PathOf(root, parts) == [root |-> root, parts |-> parts]

\* pathlib.PurePosixPath(s): empty and "." segments go, two leading
\* slashes (not three) are a root of their own
PurePosixPath(s) ==
    LET root == IF Len(s) >= 2 /\ s[1] = "/" /\ s[2] = "/"
                     /\ ~(Len(s) >= 3 /\ s[3] = "/")
                THEN <<"/", "/">>
                ELSE IF Len(s) >= 1 /\ s[1] = "/" THEN <<"/">> ELSE <<>>
    IN  PathOf(root, SelectSeq(SplitOn(s, "/"),
                               LAMBDA g : g # <<>> /\ g # <<".">>))

\* path.parts
PathParts(p) == IF p.root # <<>> THEN <<p.root>> \o p.parts ELSE p.parts

\* p / q
Slash(p, q) == IF q.root # <<>> THEN q ELSE PathOf(p.root, p.parts \o q.parts)

\* pathlib.Path(*parts)
RECURSIVE PathFromParts(_)
PathFromParts(parts) ==
    IF parts = <<>> THEN PathOf(<<>>, <<>>)
    ELSE Slash(PathFromParts(SubSeq(parts, 1, Len(parts) - 1)),
               PurePosixPath(parts[Len(parts)]))

\* path.as_posix()
as_posix(p) ==
    IF p.root = <<>> /\ p.parts = <<>> THEN <<".">>
    ELSE p.root \o Join(p.parts, <<"/">>)

\* name.rfind("."), 0 when there is no dot
LastDot(name) ==
    LET dots == {i \in 1..Len(name) : name[i] = "."}
    IN  IF dots = {} THEN 0 ELSE CHOOSE i \in dots : \A j \in dots : j <= i

\* path.with_suffix(suffix), for a path that has a name
with_suffix(p, suffix) ==
    LET name == p.parts[Len(p.parts)]
        dot == LastDot(name)
        stem == IF 1 < dot /\ dot < Len(name) THEN SubSeq(name, 1, dot - 1)
                ELSE name
    IN  PathOf(p.root, [p.parts EXCEPT ![Len(p.parts)] = stem \o suffix])

\* Mutant: the root of an absolute name is filtered out with the dots
SanitizeDroppingRoot(name, fallback) ==
    LET pure == PurePosixPath(IF name # <<>> THEN name ELSE fallback)
        filtered == SelectSeq(pure.parts, LAMBDA part : part # <<".", ".">>)
    IN  PathFromParts(IF filtered = <<>> THEN <<fallback>> ELSE filtered)

sanitize_relative_path(name, fallback) ==
    LET pure == PurePosixPath(IF name # <<>> THEN name ELSE fallback)
        filtered == SelectSeq(PathParts(pure),
                              LAMBDA part : part \notin {<<".", ".">>, <<>>, <<".">>})
    IN  PathFromParts(IF filtered = <<>> THEN <<fallback>> ELSE filtered)

\* f"item_{idx}.bin"
FallbackName(i) ==
    <<"i", "t", "e", "m", "_">> \o Decimal(i) \o <<".", "b", "i", "n">>

CATEGORY_BY_TYPE(type_name) ==
    CASE type_name \in {"document", "navigation"} -> <<"t", "e", "x", "t">>
      [] type_name = "style" -> <<"s", "t", "y", "l", "e", "s">>
      [] type_name \in {"image", "cover", "vector"} -> <<"i", "m", "a", "g", "e", "s">>
      [] OTHER -> <<"m", "i", "s", "c">>

TEXT_CONTENT_ROOT == PathOf(<<>>, << <<"t", "e", "x", "t">> >>)
TEXT_META_ROOT == PathOf(<<>>, << <<"t", "e", "x", "t", "_", "m", "e", "t", "a">> >>)
TEXT_XHTML_ROOT ==
    PathOf(<<>>, << <<"t", "e", "x", "t", "_", "x", "h", "t", "m", "l">> >>)
SuffixTxt == <<".", "t", "x", "t">>
SuffixMeta == <<".", "m", "e", "t", "a", ".", "j", "s", "o", "n">>
SuffixXhtml == <<".", "x", "h", "t", "m", "l">>

\* the resolved output directory
out_dir == PathOf(<<"/">>, << <<"o", "u", "t">> >>)

Item(file_name, type_name) == [file_name |-> file_name, type |-> type_name]

\* safe_rel of the item at index i (counted from 0 as enumerate does)
SafeRel(item, i) ==
    sanitize_relative_path(
        IF item.file_name # <<>> THEN item.file_name ELSE FallbackName(i),
        FallbackName(i))

\* The record of a pass of the loop; a path that is None is the empty string
ItemRecord(item, safe_rel, relative_path, meta_rel_path) ==
    [file_name |-> IF item.file_name # <<>> THEN item.file_name
                   ELSE as_posix(safe_rel),
     type |-> item.type,
     category |-> CATEGORY_BY_TYPE(item.type),
     relative_path |-> as_posix(relative_path),
     meta_relative_path |-> IF meta_rel_path = PathOf(<<>>, <<>>) THEN <<>>
                            ELSE as_posix(meta_rel_path)]


(***************************************************************************)
(* extract_items: one pass of the loop per item.  files lists the paths    *)
(* written so far.  A write fails when the path is a directory (the root,  *)
(* or the parent of a file written before) or lies below a file.           *)
(***************************************************************************)
IsProperPrefix(p, q) == Len(p) < Len(q) /\ SubSeq(q, 1, Len(p)) = p

Blocked(target, written) ==
    \/ target.parts = <<>>
    \/ \E i \in 1..Len(written) :
          \/ IsProperPrefix(target.parts, written[i].parts)
          \/ IsProperPrefix(written[i].parts, target.parts)

\* the writes of one pass in their order, up to the first that fails
RECURSIVE WriteAll(_, _)
WriteAll(written, targets) ==
    IF targets = <<>> THEN [files |-> written, failed |-> FALSE]
    ELSE IF Blocked(Head(targets), written)
         THEN [files |-> written, failed |-> TRUE]
         ELSE WriteAll(Append(written, Head(targets)), Tail(targets))

\* lines 302-339 for one item: the paths, the writes and the record;
\* with_suffix raises ValueError for a path without a name
ItemPass(item, i, written) ==
    LET safe_rel == SafeRel(item, i)
        nameless == safe_rel.parts = <<>>
    IN  IF item.type = "document"
        THEN IF nameless THEN [failed |-> TRUE, files |-> written, record |-> <<>>]
             ELSE LET relative_path ==
                          with_suffix(Slash(TEXT_CONTENT_ROOT, safe_rel), SuffixTxt)
                      meta_rel_path ==
                          with_suffix(Slash(TEXT_META_ROOT, safe_rel), SuffixMeta)
                      xhtml_rel_path ==
                          with_suffix(Slash(TEXT_XHTML_ROOT, safe_rel), SuffixXhtml)
                      wrote == WriteAll(written,
                                        <<Slash(out_dir, relative_path),
                                          Slash(out_dir, xhtml_rel_path),
                                          Slash(out_dir, meta_rel_path)>>)
                  IN  [failed |-> wrote.failed, files |-> wrote.files,
                       record |-> ItemRecord(item, safe_rel, relative_path,
                                             meta_rel_path)]
        ELSE LET relative_path ==
                     Slash(PathOf(<<>>, <<CATEGORY_BY_TYPE(item.type)>>), safe_rel)
                 wrote == WriteAll(written, <<Slash(out_dir, relative_path)>>)
             IN  [failed |-> wrote.failed, files |-> wrote.files,
                  record |-> ItemRecord(item, safe_rel, relative_path,
                                        PathOf(<<>>, <<>>))]

NameTokens == {<<"/">>, <<".", ".">>, <<".">>, <<"a">>, <<"a", ".", "x">>}
ItemNames == {Concat(ts) : ts \in UNION {[1..n -> NameTokens] : n \in 0..MaxNameTokens}}
ItemTypes == {"document", "navigation", "image"}

InitItems ==
    /\ pc = "items"
    /\ \E n \in 1..MaxItems : \E names \in [1..n -> ItemNames] :
          \E types \in [1..n -> ItemTypes] :
             book_items = [i \in 1..n |-> Item(names[i], types[i])]
    /\ item_idx = 0
    /\ records = <<>>
    /\ files = <<>>
    /\ EarlierIdle /\ SpineIdle /\ TranslateIdle /\ ReadIdle

\* a pass of the loop for a document
ExtractDocument ==
    /\ pc = "items"
    /\ item_idx < Len(book_items)
    /\ book_items[item_idx + 1].type = "document"
    /\ LET pass == ItemPass(book_items[item_idx + 1], item_idx, files)
       IN  /\ ~pass.failed
           /\ files' = pass.files
           /\ records' = Append(records, pass.record)
    /\ item_idx' = item_idx + 1
    /\ UNCHANGED <<pc, book_items, renderVars, normVars, tocVars, extractVars,
                   spineVars, translateVars, readVars>>

\* a pass of the loop for any other item
ExtractAsset ==
    /\ pc = "items"
    /\ item_idx < Len(book_items)
    /\ book_items[item_idx + 1].type # "document"
    /\ LET pass == ItemPass(book_items[item_idx + 1], item_idx, files)
       IN  /\ ~pass.failed
           /\ files' = pass.files
           /\ records' = Append(records, pass.record)
    /\ item_idx' = item_idx + 1
    /\ UNCHANGED <<pc, book_items, renderVars, normVars, tocVars, extractVars,
                   spineVars, translateVars, readVars>>

\* a pass of the loop that raises: the files written before it stay
ExtractFails ==
    /\ pc = "items"
    /\ item_idx < Len(book_items)
    /\ LET pass == ItemPass(book_items[item_idx + 1], item_idx, files)
       IN  /\ pass.failed
           /\ files' = pass.files
    /\ pc' = "exit"
    /\ UNCHANGED <<book_items, item_idx, records, renderVars, normVars, tocVars,
                   extractVars, spineVars,
                   translateVars, readVars>>

\* return records
ReturnRecords ==
    /\ pc = "items"
    /\ item_idx = Len(book_items)
    /\ pc' = "items extracted"
    /\ UNCHANGED <<book_items, item_idx, records, files, renderVars, normVars,
                   tocVars, extractVars, spineVars,
                   translateVars, readVars>>

NextItems == ExtractDocument \/ ExtractAsset \/ ExtractFails \/ ReturnRecords
SpecItems == InitItems /\ [][NextItems]_vars

(***************************************************************************)
(* C13.  Whatever an item is named, the relative path recorded for it is   *)
(* not empty, has no root and no "." or ".." segment, and every file       *)
(* written for it lies below the output directory.                         *)
(***************************************************************************)
Segments(s) == SplitOn(s, "/")

C13_StoragePathsStayInside ==
    /\ \A i \in 1..Len(records) :
          /\ records[i].relative_path # <<>>
          /\ records[i].relative_path[1] # "/"
          /\ \A k \in 1..Len(Segments(records[i].relative_path)) :
                Segments(records[i].relative_path)[k]
                    \notin {<<>>, <<".">>, <<".", ".">>}
    /\ \A i \in 1..Len(files) :
          /\ files[i].root = <<"/">>
          /\ Len(files[i].parts) > 1
          /\ files[i].parts[1] = <<"o", "u", "t">>
          /\ \A k \in 1..Len(files[i].parts) : files[i].parts[k] # <<".", ".">>


(***************************************************************************)
(* C14.  The markup recorded for a special block is the serialization of   *)
(* the subtree as the chapter had it: no attribute is renamed and no       *)
(* element is replaced at extraction time.                                 *)
(***************************************************************************)
C14_RecordIsPristine ==
    pc \in {"sweep", "extracted"} =>
        \A i \in 1..Len(extras) :
            extras[i].html = tostring(DeepCopy(Original, taken[i]))


(***************************************************************************)
(* C15.  A node of kind link is always converted: a run of build_toc ends  *)
(* fatally only on a node of kind html.  The link's title is the node's    *)
(* title, or its href when there is no title; its id is the node's uid, or *)
(* else the title, or else the href, or else a fixed string.               *)
(***************************************************************************)
LinkOf(converted) == IF converted.t = "pair" THEN converted.node ELSE converted

C15_LinkDefaults ==
    /\ pc = "exit" => \E n \in TocNodes(toc_entries) : n.kind = "html"
    /\ pc = "toc built" =>
           \A i \in 1..Len(toc_entries) :
               toc_entries[i].kind = "link" =>
                   LET entry == toc_entries[i]
                       link == LinkOf(toc_result[i])
                   IN  /\ link.t = "link"
                       /\ link.href = entry.href
                       /\ entry.title # "" => link.title = entry.title
                       /\ entry.title = "" /\ entry.href # "" =>
                              link.title = entry.href
                       /\ entry.uid # "" => link.uid = entry.uid
                       /\ entry.uid = "" /\ entry.title # "" =>
                              link.uid = entry.title
                       /\ entry.uid = "" /\ entry.title = "" /\ entry.href # "" =>
                              link.uid = entry.href
                       /\ entry.uid = "" /\ entry.title = "" /\ entry.href = "" =>
                              link.uid = "link"


(***************************************************************************)
(* Reading a chapter's stored text: Path.read_text(encoding="utf-8") in    *)
(* build_epub.create_item and build_translated_epub.                       *)
(* build_translated_chapters.                                              *)
(*                                                                         *)
(* A file is a sequence of bytes.  The decoder covers the one- and two-    *)
(* byte forms of UTF-8; every byte of the inputs that starts neither is    *)
(* invalid.  A character outside ASCII is written by its code point.       *)
(***************************************************************************)
IsAscii(b) == b \in 0..127
IsLead2(b) == b \in 194..223
IsContinuation(b) == b \in 128..191

Chr(cp) ==
    CASE cp = 10 -> "\n"
      [] cp = 97 -> "a"
      [] cp = 233 -> "U+00E9"
      [] cp = 65533 -> "U+FFFD"

\* the form that starts at position i is well formed
WellFormedAt(bytes, i) ==
    \/ IsAscii(bytes[i])
    \/ IsLead2(bytes[i]) /\ i < Len(bytes) /\ IsContinuation(bytes[i + 1])

CodePointAt(bytes, i) ==
    IF IsAscii(bytes[i]) THEN bytes[i]
    ELSE (bytes[i] - 192) * 64 + (bytes[i + 1] - 128)

WidthAt(bytes, i) == IF IsAscii(bytes[i]) THEN 1 ELSE 2

\* bytes.decode("utf-8", errors): errors = "strict" raises at the first
\* malformed form, errors = "replace" puts U+FFFD for the offending byte
\* and goes on with the next byte
RECURSIVE DecodeFrom(_, _, _)
DecodeFrom(bytes, i, errors) ==
    IF i > Len(bytes) THEN [raised |-> FALSE, text |-> <<>>]
    ELSE IF WellFormedAt(bytes, i)
         THEN LET rest == DecodeFrom(bytes, i + WidthAt(bytes, i), errors)
              IN  [raised |-> rest.raised,
                   text |-> <<Chr(CodePointAt(bytes, i))>> \o rest.text]
         ELSE IF errors = "strict" THEN [raised |-> TRUE, text |-> <<>>]
              ELSE LET rest == DecodeFrom(bytes, i + 1, errors)
                   IN  [raised |-> rest.raised,
                        text |-> <<Chr(65533)>> \o rest.text]

\* open(newline=None): "\r\n" and "\r" read as "\n"; the inputs have no "\r"
read_text(bytes, errors) == DecodeFrom(bytes, 1, errors)

TxtBytes == {97, 10, 195, 169, 255}
TxtFiles == UNION {[1..n -> TxtBytes] : n \in 0..MaxBytes}
\* load_translation: None without a translation file, or its lines
Loaded(lines) == [none |-> FALSE, lines |-> lines]
Translations == {None, Loaded(<<<<"b">>>>), Loaded(<<<<"b">>, <<"c">>>>)}

InitRead ==
    /\ pc \in {"create_item", "build_translated_chapters"}
    /\ \E n \in 0..MaxBytes : txt_bytes \in [1..n -> TxtBytes]
    /\ \/ pc = "create_item" /\ translation_lines = None
       \/ pc = "build_translated_chapters" /\ translation_lines \in Translations
    /\ chapter_text = <<>>
    /\ chapter_content = <<>>
    /\ decode_warned = FALSE
    /\ EarlierIdle /\ SpineIdle /\ TranslateIdle /\ ItemsIdle

\* build_epub.py lines 189-203: the text is read and the chapter rendered
CreateItem ==
    /\ pc = "create_item"
    /\ ~read_text(txt_bytes, "strict").raised
    /\ LET text == read_text(txt_bytes, "strict").text
       IN  /\ chapter_text' = text
           /\ chapter_content' = render_text_with_extras(text, <<>>)
    /\ pc' = "chapter built"
    /\ UNCHANGED <<txt_bytes, translation_lines, decode_warned, renderVars, normVars,
                   tocVars, extractVars, spineVars, translateVars, itemsVars>>

\* build_epub.py line 189: UnicodeDecodeError leaves create_item,
\* build_chapters and main, none of which catches it
CreateItemRaises ==
    /\ pc = "create_item"
    /\ read_text(txt_bytes, "strict").raised
    /\ pc' = "exit"
    /\ UNCHANGED <<readVars, renderVars, normVars, tocVars, extractVars, spineVars,
                   translateVars, itemsVars>>

\* build_translated_epub.py lines 112-143: try the strict read, on
\* UnicodeDecodeError warn and read with errors="replace"; then translate
\* and render
BuildTranslatedChapter ==
    /\ pc = "build_translated_chapters"
    /\ LET strict == read_text(txt_bytes, "strict")
           text == IF strict.raised THEN read_text(txt_bytes, "replace").text
                   ELSE strict.text
           used == IF translation_lines # None
                   THEN apply_translation(text, translation_lines.lines).text
                   ELSE text
       IN  /\ decode_warned' = strict.raised
           /\ chapter_text' = used
           /\ chapter_content' = render_text_with_extras(used, <<>>)
    /\ pc' = "chapter built"
    /\ UNCHANGED <<txt_bytes, translation_lines, renderVars, normVars, tocVars,
                   extractVars, spineVars, translateVars, itemsVars>>

NextRead == CreateItem \/ CreateItemRaises \/ BuildTranslatedChapter
SpecRead == InitRead /\ [][NextRead]_vars

(***************************************************************************)
(* C16.  In both rebuild programs a chapter whose stored text is not valid *)
(* UTF-8 is still built, from the text with replacement characters, and    *)
(* the run does not end.                                                   *)
(***************************************************************************)
ValidUtf8(bytes) == ~DecodeFrom(bytes, 1, "strict").raised

C16_DecodingErrorsDegrade ==
    /\ pc # "exit"
    /\ pc = "chapter built" /\ ~ValidUtf8(txt_bytes) /\ translation_lines = None =>
           /\ chapter_text = DecodeFrom(txt_bytes, 1, "replace").text
           /\ chapter_content = render_text_with_extras(chapter_text, <<>>)


(***************************************************************************)
(* C17.  Once a chapter that parses is extracted, every media element of   *)
(* its body lies in exactly one recorded block, and every record's token   *)
(* occurs exactly once in the emitted text and belongs to no other record. *)
(***************************************************************************)
MediaElements == {e \in InBody : Original[e].tag \in SPECIAL_MEDIA_TAGS}

TokenCount(token, text) ==
    Cardinality({k \in TokenStarts(text) : TokenAt(text, k) = token})

C17_MediaCoverage ==
    pc = "extracted" /\ raw_content.shape \in ParsedShapes =>
        /\ \A e \in MediaElements :
               Cardinality({i \in 1..Len(taken) : e \in Below(Original, taken[i])}) = 1
        /\ \A i \in 1..Len(extras) :
               /\ TokenCount(extras[i].placeholder, text_content) = 1
               /\ \A j \in 1..Len(extras) :
                      extras[j].placeholder = extras[i].placeholder => j = i


(***************************************************************************)
(* C18.  Items with different file names are stored under different        *)
(* paths: no two records of such items share a relative_path, and no two   *)
(* documents share a meta_relative_path.                                   *)
(***************************************************************************)
C18_StoragePathsUnique ==
    \A i \in 1..Len(records) : \A j \in 1..Len(records) :
        i # j /\ records[i].file_name # records[j].file_name =>
            /\ records[i].relative_path # records[j].relative_path
            /\ records[i].type = "document" /\ records[j].type = "document" =>
                   records[i].meta_relative_path # records[j].meta_relative_path


(***************************************************************************)
(* C19.  After build_toc has returned, the title of a chapter is the title *)
(* of the last html node that names it and has a title, in the order that  *)
(* visits the children of a node before the node; a chapter without such a *)
(* node has the title it had; no chapter is added or dropped and no id     *)
(* changes.                                                                *)
(***************************************************************************)
RECURSIVE ChildrenFirst(_)
ChildrenFirst(entries) ==
    IF entries = <<>> THEN <<>>
    ELSE ChildrenFirst(Head(entries).children) \o <<Head(entries)>>
             \o ChildrenFirst(Tail(entries))

\* the chapters as they were handed to build_toc
ChaptersBefore == CHOOSE c \in ChapterSets : DOMAIN c = DOMAIN chapters

Retitling(file_name) ==
    SelectSeq(ChildrenFirst(toc_entries),
              LAMBDA n : n.kind = "html" /\ n.file_name = file_name /\ n.title # "")

C19_LastTitleWins ==
    pc = "toc built" =>
        \A f \in DOMAIN chapters :
            /\ chapters[f].id = ChaptersBefore[f].id
            /\ chapters[f].title =
                   IF Retitling(f) = <<>> THEN ChaptersBefore[f].title
                   ELSE Retitling(f)[Len(Retitling(f))].title

\* An html node with a title has a child that names the same chapter with
\* another title, and the chapter ends with the title of the parent
C19_Witness ==
    /\ pc = "toc built"
    /\ \E i \in 1..Len(toc_entries) :
          LET n == toc_entries[i]
          IN  /\ n.kind = "html" /\ n.title # ""
              /\ \E j \in 1..Len(n.children) :
                     /\ n.children[j].kind = "html"
                     /\ n.children[j].file_name = n.file_name
                     /\ n.children[j].title \notin {"", n.title}
              /\ chapters[n.file_name].title = n.title
====
